---------------------------- MODULE Spec2Model ----------------------------
(***************************************************************************)
(* State-machine model of the LaunchWing orchestrator: the request         *)
(* handlers (/mvp, /sandbox-deploy, /github-export), the helpers they call *)
(* and the remote services (model endpoint, hosting platform, source host) *)
(* as far as the handlers observe them.  Every handler is a sequence of    *)
(* awaited network calls; one action models one such step, so that         *)
(* concurrent requests interleave exactly at the awaits.                   *)
(***************************************************************************)
EXTENDS Integers, Sequences, FiniteSets, TLC

(***************************************************************************)
(* Bounds of the model.                                                    *)
(***************************************************************************)
NumCallers == 2        \* concurrent /github-export requests
MaxModelFiles == 51    \* entries in the files map the model returns
MaxDeploys == 2        \* /sandbox-deploy requests served one after the other

VARIABLES
  ghEnvOk,     \* GITHUB_TOKEN and GITHUB_ORG are both configured
  ghRepo,      \* the remote repository exists
  ghFiles,     \* remote repository: path -> stored content (NoFile if absent)
  gPc,         \* per request: position in githubExportHandler
  gReq,        \* per request: parsed body {repoName, files}
  gIdx,        \* per request: index of the bundle entry being pushed
  gSha,        \* per request: sha read by the GET before the PUT
  gLog,        \* per request: requests issued by pushFilesWithContentsAPI
  gOut         \* per request: outcome of the handler

ghVars == <<ghEnvOk, ghRepo, ghFiles, gPc, gReq, gIdx, gSha, gLog, gOut>>

VARIABLES
  aEnvKey,     \* Pages function /api/mvp: env.OPENAI_API_KEY is set
  aPc,         \* position in onRequestPost
  aIdea,       \* body.idea as received (NoIdea if absent)
  aCalls,      \* requests sent to the model endpoint
  aResult,     \* the parsed model output after normalisation
  aEntries,    \* entries of result.files consumed by the guardrail loop
  aSeen,       \* raw keys of result.files already iterated
  aN,          \* n: files accepted by the guardrail loop
  aTotal,      \* total: bytes accepted by the guardrail loop
  aOut,        \* outFiles
  aResp        \* the response sent (NoResp before)

appVars == <<aEnvKey, aPc, aIdea, aCalls, aResult, aEntries, aSeen, aN,
             aTotal, aOut, aResp>>

VARIABLES
  oEnvKey,     \* orchestrator /mvp: env.OPENAI_API_KEY is set
  oPc,         \* position in mvpHandler
  oReq,        \* the request: ?stream=true and the parsed body
  oCalls,      \* requests sent to the model endpoint
  oAgent,      \* what callOpenAI returned
  oParsed,     \* what safeParseJson returned: nothing yet, null, an object
  oStream,     \* steps written to the ndjson stream
  oResp        \* the response returned (NoResp before)

orchVars == <<oEnvKey, oPc, oReq, oCalls, oAgent, oParsed, oStream, oResp>>

VARIABLES
  wEnv,        \* /sandbox-deploy (function strategy): the platform settings
  cfServices,  \* platform: names of the services that exist
  wPc,         \* position in sandboxDeployHandler / uploadModuleWorker
  wReq,        \* the parsed request body
  wName,       \* the service name deploy chose
  wLog,        \* platform API requests issued for this request
  wAttempt,    \* waitForReadiness: i
  wReady,      \* waitForReadiness: not run, returned true, or gave up
  wProbes,     \* waitForReadiness: probes sent in the current iteration
  wReadyBy,    \* waitForReadiness: the probe on which it returned true
  wDeployed,   \* the DeployResult handed to the handler
  wResp,       \* the response sent (NoResp before)
  wDone        \* the requests served so far

workerVars == <<wEnv, cfServices, wPc, wReq, wName, wLog, wAttempt, wReady,
                wProbes, wReadyBy, wDeployed, wResp, wDone>>

VARIABLES
  pEnv,        \* /sandbox-deploy (bundle strategy): the platform settings
  cfProjects,  \* platform: names of the Pages projects that exist
  cfScripts,   \* platform: names of the Worker scripts that exist
  pPc,         \* position in sandboxDeployHandler / deployPagesDirect
  pReq,        \* the parsed request body
  pName,       \* name
  pEphemeral,  \* ephemeral
  pFallback,   \* the handler went from the function strategy to Pages
  pLog,        \* platform API requests issued for this request
  pErr,        \* message of the error thrown
  pScheduled,  \* deletions handed to ctx.waitUntil and not yet run
  pResp,       \* the response sent (NoResp before)
  pServed      \* number of requests received

pagesVars == <<pEnv, cfProjects, cfScripts, pPc, pReq, pName, pEphemeral,
               pFallback, pLog, pErr, pScheduled, pResp, pServed>>

VARIABLES
  rRev,        \* router: the revision of src/index.ts that is deployed
  rPc,         \* position in fetch
  rReq,        \* the request being served
  rRoute,      \* the route entry whose handler is awaited
  rInvoked,    \* the handler fetch invoked for this request
  rResp        \* the response of the last request served

routerVars == <<rRev, rPc, rReq, rRoute, rInvoked, rResp>>

VARIABLES
  sPc,         \* safeParseJson: not called yet, or returned
  sRaw,        \* the text handed to safeParseJson
  sParsed      \* what it returned (None for null)

parseVars == <<sPc, sRaw, sParsed>>

VARIABLES
  pxPc,        \* generated _worker.js: request not handled yet, or answered
  pxReq,       \* the request: method and url.pathname
  pxUpstream,  \* the request sent to the orchestrator (None if none)
  pxResp       \* how the request was answered

proxyVars == <<pxPc, pxReq, pxUpstream, pxResp>>

VARIABLES
  cRev,        \* chat controller: the revision of useSendHandler in use
  cMessages,   \* React state: the messages of the active thread
  cLoading,    \* React state: loading
  cBundle,     \* React state: idea.bundle of the active thread
  cFiles,      \* filesByIdea.current.get(id)
  cCall,       \* per handler call: position, captured snapshot, progress
  cDeploys     \* the requests sent to /sandbox-deploy

chatVars == <<cRev, cMessages, cLoading, cBundle, cFiles, cCall, cDeploys>>

vars ==
  <<ghVars, appVars, orchVars, workerVars, pagesVars, routerVars, parseVars, proxyVars,
    chatVars>>

\* What the actions of one handler leave alone: the other handlers' state.
GithubOnly == UNCHANGED <<appVars, orchVars, workerVars, pagesVars, routerVars,
    parseVars,
    proxyVars,
    chatVars>>
AppOnly == UNCHANGED <<ghVars, orchVars, workerVars, pagesVars, routerVars,
    parseVars,
    proxyVars,
    chatVars>>
OrchOnly == UNCHANGED <<appVars, workerVars, pagesVars, routerVars,
    parseVars,
    proxyVars,
    chatVars>>
WorkerOnly == UNCHANGED <<ghVars, appVars, orchVars, pagesVars, routerVars,
    parseVars,
    proxyVars,
    chatVars>>
PagesOnly == UNCHANGED <<ghVars, appVars, orchVars, workerVars, routerVars,
    parseVars,
    proxyVars,
    chatVars>>
RouterOnly == UNCHANGED <<ghVars, appVars, orchVars, workerVars, pagesVars,
    parseVars,
    proxyVars,
    chatVars>>
ParseOnly ==
  UNCHANGED <<ghVars, appVars, orchVars, workerVars, pagesVars, routerVars,
    proxyVars,
    chatVars>>
ProxyOnly ==
  UNCHANGED <<ghVars, appVars, orchVars, workerVars, pagesVars, routerVars, parseVars,
    chatVars>>
ChatOnly ==
  UNCHANGED <<ghVars, appVars, orchVars, workerVars, pagesVars, routerVars, parseVars, proxyVars>>

(***************************************************************************)
(* /github-export: githubExportHandler, ensureRepo,                        *)
(* pushFilesWithContentsAPI and the source host's REST API.                *)
(***************************************************************************)
Callers == 1..NumCallers
Paths == {"index.html", "app.js"}
NoFile == <<>>
NoSha == <<>>

\* Content caller c sends for path p; "old" content predates every request.
Content(c, p) == <<"text", c, p>>
OldContent(p) == <<"text", 0, p>>

\* b64(s): the encoded body; the host decodes it before storing.
b64(s) == <<"b64", s>>
HostDecode(e) == e[2]

\* The blob identifier the host reports for stored content.
BlobSha(content) == <<"sha", content>>

\* Bundles: Object.entries(files) lists distinct keys in insertion order.
Range(s) == {s[i] : i \in 1..Len(s)}
Distinct(s) == Cardinality(Range(s)) = Len(s)
Bundles ==
  {s \in UNION {[1..n -> Paths] : n \in 0..Cardinality(Paths)} : Distinct(s)}

\* assertEnv(v, name)
assertEnv(v) == v

\* Response.ok
HttpOk(status) == status >= 200 /\ status <= 299

InitGh ==
  /\ ghEnvOk \in BOOLEAN
  /\ ghRepo \in BOOLEAN
  /\ ghFiles \in [Paths -> {NoFile} \cup {OldContent(p) : p \in Paths}]
  /\ \A p \in Paths : ghFiles[p] \in {NoFile, OldContent(p)}
  /\ (~ghRepo => \A p \in Paths : ghFiles[p] = NoFile)
  /\ gPc = [c \in Callers |-> "idle"]
  /\ gReq = [c \in Callers |-> [repoName |-> FALSE, files |-> <<>>]]
  /\ gIdx = [c \in Callers |-> 0]
  /\ gSha = [c \in Callers |-> NoSha]
  /\ gLog = [c \in Callers |-> <<>>]
  /\ gOut = [c \in Callers |-> "none"]

\* githubExportHandler, up to the call of ensureRepo.
githubExportHandler(c) ==
  /\ gPc[c] = "idle"
  /\ \E hasName \in BOOLEAN, files \in Bundles :
       /\ gReq' = [gReq EXCEPT ![c] = [repoName |-> hasName, files |-> files]]
       /\ IF ~hasName
          THEN /\ gPc' = [gPc EXCEPT ![c] = "done"]
               /\ gOut' = [gOut EXCEPT ![c] = "400"]
          ELSE IF ~assertEnv(ghEnvOk)
          THEN /\ gPc' = [gPc EXCEPT ![c] = "done"]
               /\ gOut' = [gOut EXCEPT ![c] = "threw_env"]
          ELSE /\ gPc' = [gPc EXCEPT ![c] = "ensure_get"]
               /\ UNCHANGED gOut
  /\ UNCHANGED <<ghEnvOk, ghRepo, ghFiles, gIdx, gSha, gLog>>
  /\ GithubOnly

\* Status of GET /repos/{org}/{repo}.
RepoGetStatus == IF ghRepo THEN 200 ELSE 404

\* ensureRepo: "Try get".
ensureRepoGet(c) ==
  /\ gPc[c] = "ensure_get"
  /\ gPc' = [gPc EXCEPT ![c] =
        IF RepoGetStatus = 200 THEN "push_next" ELSE "ensure_create"]
  /\ gIdx' = [gIdx EXCEPT ![c] = 1]
  /\ UNCHANGED <<ghEnvOk, ghRepo, ghFiles, gReq, gSha, gLog, gOut>>
  /\ GithubOnly

\* Status of POST /orgs/{org}/repos: the host refuses a name that is taken.
RepoCreateStatus == IF ghRepo THEN 422 ELSE 201

\* ensureRepo after the create call: does it return (TRUE) or throw?
ensureRepoCreated(status) == HttpOk(status)

\* ensureRepo: "Create".
ensureRepoCreate(c) ==
  /\ gPc[c] = "ensure_create"
  /\ LET status == RepoCreateStatus IN
       /\ ghRepo' = (ghRepo \/ status = 201)
       /\ IF ensureRepoCreated(status)
          THEN /\ gPc' = [gPc EXCEPT ![c] = "push_next"]
               /\ UNCHANGED gOut
          ELSE /\ gPc' = [gPc EXCEPT ![c] = "done"]
               /\ gOut' = [gOut EXCEPT ![c] = "threw_create"]
  /\ UNCHANGED <<ghEnvOk, ghFiles, gReq, gIdx, gSha, gLog>>
  /\ GithubOnly

\* Status of GET /repos/{org}/{repo}/contents/{path}.
ContentsGetStatus(path) == IF ghFiles[path] = NoFile THEN 404 ELSE 200

\* Mutant of ShaFromGet: the sha of the GET is dropped.
ShaFromGetDropped(status, bodySha) == NoSha

\* pushFilesWithContentsAPI: the sha kept from the GET's answer.
ShaFromGet(status, bodySha) == IF status = 200 THEN bodySha ELSE NoSha

\* pushFilesWithContentsAPI: GET of the current entry's path.
pushGet(c) ==
  /\ gPc[c] = "push_next"
  /\ gIdx[c] <= Len(gReq[c].files)
  /\ LET path == gReq[c].files[gIdx[c]]
         status == ContentsGetStatus(path)
         bodySha == IF status = 200 THEN BlobSha(ghFiles[path]) ELSE NoSha
     IN /\ gSha' = [gSha EXCEPT ![c] = ShaFromGet(status, bodySha)]
        /\ gLog' = [gLog EXCEPT ![c] = Append(@,
             [op |-> "GET", path |-> path, status |-> status,
              sha |-> bodySha])]
  /\ gPc' = [gPc EXCEPT ![c] = "push_put"]
  /\ UNCHANGED <<ghEnvOk, ghRepo, ghFiles, gReq, gIdx, gOut>>
  /\ GithubOnly

\* The host's answer to PUT contents: it creates a missing file when no sha
\* is sent, updates a file when the sha sent is the stored blob's, and
\* rejects the write as a version conflict otherwise.
ContentsPutStatus(path, sha) ==
  IF ghFiles[path] = NoFile
  THEN IF sha = NoSha THEN 201 ELSE 422
  ELSE IF sha = BlobSha(ghFiles[path]) THEN 200
       ELSE IF sha = NoSha THEN 422 ELSE 409

ConflictStatus(status) == status \in {409, 422}

\* Mutant of PutFailed: only server errors end the push.
PutFailedOnlyOn5xx(status) == status >= 500

\* pushFilesWithContentsAPI: `if (!put.ok) throw`.
PutFailed(status) == ~HttpOk(status)

\* pushFilesWithContentsAPI: PUT of the current entry; the host may also
\* refuse the write for a reason of its own (403).
pushPut(c) ==
  /\ gPc[c] = "push_put"
  /\ \E refused \in BOOLEAN :
       LET path == gReq[c].files[gIdx[c]]
           body == [content |-> b64(Content(c, path)), sha |-> gSha[c]]
           status == IF refused THEN 403
                     ELSE ContentsPutStatus(path, body.sha)
       IN /\ gLog' = [gLog EXCEPT ![c] = Append(@,
               [op |-> "PUT", path |-> path, status |-> status,
                sha |-> body.sha])]
          /\ ghFiles' = IF HttpOk(status)
                        THEN [ghFiles EXCEPT ![path] = HostDecode(body.content)]
                        ELSE ghFiles
          /\ IF PutFailed(status)
             THEN /\ gPc' = [gPc EXCEPT ![c] = "done"]
                  /\ gOut' = [gOut EXCEPT ![c] = "threw_push"]
                  /\ UNCHANGED gIdx
             ELSE /\ gPc' = [gPc EXCEPT ![c] = "push_next"]
                  /\ gIdx' = [gIdx EXCEPT ![c] = @ + 1]
                  /\ UNCHANGED gOut
  /\ UNCHANGED <<ghEnvOk, ghRepo, gReq, gSha>>
  /\ GithubOnly

\* pushFilesWithContentsAPI returns the repository URL and
\* githubExportHandler responds {ok:true, repoUrl}.
githubExportRespond(c) ==
  /\ gPc[c] = "push_next"
  /\ gIdx[c] > Len(gReq[c].files)
  /\ gPc' = [gPc EXCEPT ![c] = "done"]
  /\ gOut' = [gOut EXCEPT ![c] = "ok"]
  /\ UNCHANGED <<ghEnvOk, ghRepo, ghFiles, gReq, gIdx, gSha, gLog>>
  /\ GithubOnly

(***************************************************************************)
(* /api/mvp of the Pages app: onRequestPost (app/functions/api/mvp.ts).    *)
(* File contents are kept by their UTF-8 size, paths by name.  A path the  *)
(* model may repeat under two spellings ("/x" and "x") is kept by name;    *)
(* all other paths are distinct after normalisation, so outFiles keeps     *)
(* only their number and their bytes.                                      *)
(***************************************************************************)
MAX_FILES == 50
MAX_BYTES == 300000
ProxyWorkerBytes == 2104      \* UTF-8 size of PROXY_WORKER_JS
IndexTemplateBytes == 1858    \* UTF-8 size of synthIndexHTML without titles
DefaultTitleBytes == 14       \* "LaunchWing App"

Whitespace == {" ", "\n"}
\* Request bodies: idea absent, empty, blank, or a text.
Bodies ==
  {[hasIdea |-> FALSE, idea |-> <<>>]} \cup
  {[hasIdea |-> TRUE, idea |-> i] :
     i \in {<<>>, <<" ">>, <<" ", "\n">>, <<"a">>, <<" ", "a", " ">>}}

\* String.prototype.trim
RECURSIVE TrimStart(_)
TrimStart(s) ==
  IF s # <<>> /\ Head(s) \in Whitespace THEN TrimStart(Tail(s)) ELSE s
RECURSIVE TrimEnd(_)
TrimEnd(s) ==
  IF s # <<>> /\ s[Len(s)] \in Whitespace
  THEN TrimEnd(SubSeq(s, 1, Len(s) - 1)) ELSE s
trim(s) == TrimEnd(TrimStart(s))

\* (body?.idea || "").trim()
IdeaOf(body) == trim(IF body.hasIdea THEN body.idea ELSE <<>>)

\* What the model endpoint may answer.  payload: the output text is absent
\* ("none"), JSON ("json"), prose without a trailing {...} ("prose"), prose
\* ending in a JSON object ("prose_json"), prose ending in braces that do
\* not parse ("prose_badjson"), or JSON that is no object ("null").
NoName == "undefined"
ResultShapes ==
  [ir : {"absent", "noname", "named"},
   files : {"absent", "empty", "some"},
   artifacts : {"absent", "empty", "some"}]
ModelAnswers ==
  [status : {200, 429, 500},
   rawIsJson : BOOLEAN,
   payload : {"none", "json", "prose", "prose_json", "prose_badjson", "null"},
   result : ResultShapes]

\* Paths the guardrail loop or the injection look at by name.
SpecialNames == {"_worker.js", "_worker.ts", "index.html"}
Absent == -1
FileSizes == {1, 150000}
\* A key of result.files: a name with some leading slashes.
SpecialKeys == [slashes : {0, 1}, name : SpecialNames]
PlainKey == [slashes |-> 0, name |-> "plain"]
\* String(p0 || "").replace(/^\/+/, "")
StripLeadingSlashes(key) == key.name

EmptyFiles ==
  [plain |-> 0, plainBytes |-> 0, special |-> [n \in SpecialNames |-> Absent]]
Has(files, name) == files.special[name] # Absent
FileCount(files) ==
  files.plain + Cardinality({n \in SpecialNames : Has(files, n)})
RECURSIVE SumSizes(_, _)
SumSizes(files, names) ==
  IF names = {} THEN 0
  ELSE LET n == CHOOSE x \in names : TRUE
       IN (IF Has(files, n) THEN files.special[n] ELSE 0)
          + SumSizes(files, names \ {n})
TotalBytes(files) == files.plainBytes + SumSizes(files, SpecialNames)
\* outFiles[p] = c
PutFile(files, p, sz) ==
  IF p \in SpecialNames
  THEN [files EXCEPT !.special[p] = sz]
  ELSE [files EXCEPT !.plain = @ + 1, !.plainBytes = @ + sz]

\* synthIndexHTML(ir): the template with the title in <title> and <h1>.
TitleBytes(irName) ==
  IF irName = NoName THEN DefaultTitleBytes ELSE Len(irName)
SynthIndexBytes(irName) == IndexTemplateBytes + 2 * TitleBytes(irName)

NoResp == [status |-> 0]
ErrorResp(st, msg) == [status |-> st, ok |-> FALSE, error |-> msg]

InitApp ==
  /\ aEnvKey \in BOOLEAN
  /\ aPc = "idle"
  /\ aIdea = <<>>
  /\ aCalls = 0
  /\ aResult = [irName |-> NoName, files |-> "none", schemaOk |-> FALSE]
  /\ aEntries = 0
  /\ aSeen = {}
  /\ aN = 0
  /\ aTotal = 0
  /\ aOut = EmptyFiles
  /\ aResp = NoResp

\* onRequestPost, lines 154-160: read the body, check idea and API key.
onRequestPost ==
  /\ aPc = "idle"
  /\ \E body \in Bodies :
       LET idea == IdeaOf(body) IN
       /\ aIdea' = idea
       /\ IF idea = <<>>
          THEN /\ aResp' = ErrorResp(400, "Missing idea")
               /\ aPc' = "done"
          ELSE IF ~aEnvKey
          THEN /\ aResp' = ErrorResp(500, "Missing OPENAI_API_KEY")
               /\ aPc' = "done"
          ELSE /\ aPc' = "fetch"
               /\ UNCHANGED aResp
  /\ UNCHANGED <<aEnvKey, aCalls, aResult, aEntries, aSeen, aN, aTotal, aOut>>
  /\ AppOnly

\* ir after `result.ir ||= {name: "Generated App", ...}`.
NormalIrName(shape) ==
  CASE shape.ir = "absent" -> <<"G", "e", "n">>
    [] shape.ir = "noname" -> NoName
    [] OTHER -> <<"T", "o", "d", "o">>

\* files after `result.files ||= {}` and the synthesis of index.html.
NormalFiles(shape) ==
  IF shape.files = "some" THEN "some"
  ELSE IF shape.artifacts = "some" THEN "synth" ELSE "none"

\* The parsed output has the members the schema of lines 163-181 requires.
MatchesSchema(shape) == shape.ir # "absent"

\* onRequestPost, lines 210-265: call the model, parse and normalise.
onRequestPostFetch ==
  /\ aPc = "fetch"
  /\ aCalls' = aCalls + 1
  /\ \E ans \in ModelAnswers :
       IF ~HttpOk(ans.status)
       THEN aResp' = ErrorResp(502, "OpenAI HTTP") /\ aPc' = "done"
                        /\ UNCHANGED aResult
       ELSE IF ~ans.rawIsJson
       THEN aResp' = ErrorResp(502, "Malformed JSON from OpenAI")
                        /\ aPc' = "done" /\ UNCHANGED aResult
       ELSE IF ans.payload = "none"
       THEN aResp' = ErrorResp(502, "Empty model output")
                        /\ aPc' = "done" /\ UNCHANGED aResult
       ELSE IF ans.payload = "prose"
       THEN aResp' = ErrorResp(502, "Could not parse JSON from model output")
                        /\ aPc' = "done" /\ UNCHANGED aResult
       ELSE IF ans.payload \in {"prose_badjson", "null"}
       THEN aResp' = ErrorResp(500, "exception")
                        /\ aPc' = "done" /\ UNCHANGED aResult
       ELSE /\ aResult' = [irName |-> NormalIrName(ans.result),
                           files |-> NormalFiles(ans.result),
                           schemaOk |-> MatchesSchema(ans.result)]
            /\ aPc' = "guard"
            /\ UNCHANGED aResp
  /\ UNCHANGED <<aEnvKey, aIdea, aEntries, aSeen, aN, aTotal, aOut>>
  /\ AppOnly

\* The entries Object.entries(result.files) may yield next: the synthesized
\* index.html, or any key not seen yet with any content.
NextEntries ==
  IF aResult.files = "synth"
  THEN IF aEntries = 0
       THEN {[key |-> [slashes |-> 0, name |-> "index.html"],
              size |-> SynthIndexBytes(aResult.irName)]}
       ELSE {}
  ELSE IF aResult.files = "some" /\ aEntries < MaxModelFiles
  THEN [key : (SpecialKeys \ aSeen) \cup {PlainKey}, size : FileSizes]
  ELSE {}

\* The loop may end here: result.files has no further entry.
EntriesMayEnd ==
  \/ aResult.files = "none"
  \/ aResult.files = "synth" /\ aEntries = 1
  \/ aResult.files = "some" /\ aEntries >= 1

\* The guardrail loop stops at entry e (either `break`).
GuardBreaks(n, total, e) ==
  n >= MAX_FILES \/ total + e.size > MAX_BYTES

\* `_worker.js` injection, lines 286-290.
InjectWorker(files) ==
  IF ~Has(files, "_worker.js") /\ ~Has(files, "_worker.ts")
  THEN PutFile(files, "_worker.js", ProxyWorkerBytes)
  ELSE files

\* Lines 286-301: inject the proxy, set result.files, answer 200.
OkResp(files) ==
  [status |-> 200, ok |-> TRUE, irName |-> aResult.irName,
   files |-> InjectWorker(files)]

\* onRequestPost, lines 275-284: one iteration that accepts its entry.
onRequestPostGuard ==
  /\ aPc = "guard"
  /\ \E e \in NextEntries :
       /\ ~GuardBreaks(aN, aTotal, e)
       /\ aOut' = PutFile(aOut, StripLeadingSlashes(e.key), e.size)
       /\ aTotal' = aTotal + e.size
       /\ aN' = aN + 1
       /\ aEntries' = aEntries + 1
       /\ aSeen' = IF e.key = PlainKey THEN aSeen ELSE aSeen \cup {e.key}
  /\ UNCHANGED <<aEnvKey, aPc, aIdea, aCalls, aResult, aResp>>
  /\ AppOnly

\* onRequestPost, lines 275-301: the loop ends (no entry left, or a break)
\* and the response is sent.
onRequestPostRespond ==
  /\ aPc = "guard"
  /\ \/ EntriesMayEnd
     \/ \E e \in NextEntries : GuardBreaks(aN, aTotal, e)
  /\ aResp' = OkResp(aOut)
  /\ aPc' = "done"
  /\ UNCHANGED <<aEnvKey, aIdea, aCalls, aResult, aEntries, aSeen, aN,
                 aTotal, aOut>>
  /\ AppOnly

(***************************************************************************)
(* /mvp of the orchestrator: mvpHandler and callOpenAI (src/api/mvp.ts).   *)
(* Its calls of ensureRepo and pushFilesWithContentsAPI run the actions of *)
(* the /github-export section as caller OrchCaller.                        *)
(***************************************************************************)
OrchCaller == 1

\* const idea = input.idea || "(no idea provided)"
NoIdeaProvided == <<"(", "n", "o", ")">>
OrchIdea(body) ==
  IF body.hasIdea /\ body.idea # <<>> THEN body.idea ELSE NoIdeaProvided

\* What the model endpoint may answer to callOpenAI: a status, and for 200
\* the outcome of safeParseJson(extractOutputText(j)): null, or an object
\* with or without ir and files.
OrchAnswers ==
  [status : {200, 500},
   parsed : {"null", "object"},
   ir : {"absent", "named"},
   files : {"absent", "some"}]

\* callOpenAI, lines 150-156: defaults for a missing ir and missing files.
AgentOf(ans) ==
  [ir |-> IF ans.parsed = "object" /\ ans.ir = "named"
          THEN "model" ELSE "default",
   files |-> IF ans.parsed = "object" THEN ans.files ELSE "absent"]

\* sanitizeGeneratedFiles(env, files, appName): the bundles it may return.
sanitizeGeneratedFiles(files) == Bundles

InitOrch ==
  /\ oEnvKey \in BOOLEAN
  /\ oPc = "idle"
  /\ oReq = [stream |-> FALSE, body |-> [hasIdea |-> FALSE, idea |-> <<>>]]
  /\ oCalls = 0
  /\ oAgent = [ir |-> "default", files |-> "absent"]
  /\ oParsed = "none"
  /\ oStream = <<>>
  /\ oResp = NoResp

\* A throw inside the pipeline: the streaming job writes an error step; the
\* plain handler rejects and the request ends without a handler response.
OrchThrow(msg) ==
  /\ oPc' = "done"
  /\ IF oReq.stream
     THEN oStream' = Append(oStream, "error") /\ UNCHANGED oResp
     ELSE oResp' = [status |-> 500, ok |-> FALSE, error |-> msg]
          /\ UNCHANGED oStream

\* mvpHandler, lines 10-24: read the request; with ?stream=true the
\* response (the stream) is returned before the pipeline runs.
mvpHandler ==
  /\ oPc = "idle"
  /\ \E stream \in BOOLEAN, body \in Bodies :
       /\ oReq' = [stream |-> stream, body |-> body]
       /\ IF stream
          THEN /\ oResp' = [status |-> 200, ok |-> TRUE, ndjson |-> TRUE]
               /\ oStream' = <<"start">>
          ELSE UNCHANGED <<oResp, oStream>>
  /\ oPc' = "model"
  /\ UNCHANGED <<oEnvKey, oCalls, oAgent, oParsed>>
  /\ UNCHANGED ghVars
  /\ OrchOnly

\* callOpenAI: the key check, the request, the parse of the answer.
callOpenAI ==
  /\ oPc = "model"
  /\ IF ~oEnvKey
     THEN /\ OrchThrow("Missing env: OPENAI_API_KEY")
          /\ UNCHANGED <<oCalls, oAgent, oParsed>>
     ELSE /\ oCalls' = oCalls + 1
          /\ \E ans \in OrchAnswers :
               IF ~HttpOk(ans.status)
               THEN OrchThrow("OpenAI status")
                    /\ UNCHANGED <<oAgent, oParsed>>
               ELSE /\ oAgent' = AgentOf(ans)
                    /\ oParsed' = ans.parsed
                    /\ oPc' = "repo"
                    /\ oStream' = IF oReq.stream
                                  THEN oStream \o <<"openai", "openai">>
                                  ELSE oStream
                    /\ UNCHANGED oResp
  /\ UNCHANGED <<oEnvKey, oReq>>
  /\ UNCHANGED ghVars
  /\ OrchOnly

\* mvpHandler, lines 29-35 / 70-74: sanitize the files and call ensureRepo
\* (whose first statements are the assertEnv checks).
mvpHandlerEnsureRepo ==
  /\ oPc = "repo"
  /\ gPc[OrchCaller] = "idle"
  /\ \E files \in sanitizeGeneratedFiles(oAgent.files) :
       gReq' = [gReq EXCEPT ![OrchCaller] =
                  [repoName |-> TRUE, files |-> files]]
  /\ IF ~assertEnv(ghEnvOk)
     THEN /\ OrchThrow("Missing env: GITHUB_TOKEN")
          /\ UNCHANGED gPc
     ELSE /\ oPc' = "pushing"
          /\ gPc' = [gPc EXCEPT ![OrchCaller] = "ensure_get"]
          /\ oStream' = IF oReq.stream
                        THEN oStream \o <<"sanitize", "repo">>
                        ELSE oStream
          /\ UNCHANGED oResp
  /\ UNCHANGED <<oEnvKey, oReq, oCalls, oAgent, oParsed>>
  /\ UNCHANGED <<ghEnvOk, ghRepo, ghFiles, gIdx, gSha, gLog, gOut>>
  /\ OrchOnly

\* ensureRepo or pushFilesWithContentsAPI threw.
mvpHandlerFailed ==
  /\ oPc = "pushing"
  /\ gPc[OrchCaller] = "done"
  /\ gOut[OrchCaller] \in {"threw_create", "threw_push"}
  /\ OrchThrow(gOut[OrchCaller])
  /\ UNCHANGED <<oEnvKey, oReq, oCalls, oAgent, oParsed>>
  /\ UNCHANGED ghVars
  /\ OrchOnly

\* mvpHandler, lines 48-53 / 82: the push returned the repository URL.
mvpHandlerRespond ==
  /\ oPc = "pushing"
  /\ gPc[OrchCaller] = "push_next"
  /\ gIdx[OrchCaller] > Len(gReq[OrchCaller].files)
  /\ oPc' = "done"
  /\ IF oReq.stream
     THEN oStream' = oStream \o <<"push", "done">> /\ UNCHANGED oResp
     ELSE oResp' = [status |-> 200, ok |-> TRUE, ndjson |-> FALSE]
          /\ UNCHANGED oStream
  /\ UNCHANGED <<oEnvKey, oReq, oCalls, oAgent, oParsed>>
  /\ UNCHANGED ghVars
  /\ OrchOnly

(***************************************************************************)
(* /sandbox-deploy, single-file function strategy: sandboxDeployHandler    *)
(* (src/api/sandbox-deploy.ts, lines 12-52), deploy (stage 6) and          *)
(* uploadModuleWorker / waitForReadiness (src/utils/cloudflare.ts, lines   *)
(* 211-321).  Requests are served one after the other against one          *)
(* platform account, whose services outlive the request.                   *)
(***************************************************************************)
READINESS_ATTEMPTS == 30

\* An optional value of a JS object: None is `undefined`.
None == <<>>
Some(v) == <<v>>

\* json(obj, status): JSON.stringify leaves out the undefined members.
json(obj, status) ==
  [status |-> status,
   body |-> [k \in {x \in DOMAIN obj : obj[x] # None} |-> obj[k][1]]]

\* `${nameBase}-${shortId()}`: the names two draws of shortId can give.
ServiceNames == {"app-k3", "app-9x"}
WorkersDevUrl(name) == <<"https://", name, ".workers.dev/">>

WorkerBodies == [confirm : {"absent", "false", "true"}, idea : BOOLEAN]
NoBody == [confirm |-> "absent", idea |-> FALSE]

NotServing == "Deployed, workers.dev enabled, but not serving yet"
NoResult == [ok |-> FALSE, name |-> None, url |-> None, error |-> None,
             status |-> None, endpoint |-> None]
\* { ok: false, error, status, endpoint }
FailResult(msg, st, ep) ==
  [NoResult EXCEPT !.error = Some(msg), !.status = Some(st),
                   !.endpoint = Some(ep)]

NoProbes == [health |-> 0, root |-> 0]
NoProbe == [path |-> "none", status |-> 0, html |-> FALSE,
            placeholder |-> FALSE]

\* The settings, and the revision of uploadModuleWorker that is deployed:
\* the one of part_007 falls back to the Scripts settings when the Services
\* settings do not show workers_dev enabled.
InitWorker ==
  /\ wEnv \in [account : BOOLEAN, auth : BOOLEAN, subdomain : BOOLEAN,
                scriptsFallback : BOOLEAN]
  /\ cfServices = {}
  /\ wPc = "idle"
  /\ wReq = NoBody
  /\ wName = "none"
  /\ wLog = <<>>
  /\ wAttempt = 0
  /\ wReady = "none"
  /\ wProbes = NoProbes
  /\ wReadyBy = NoProbe
  /\ wDeployed = NoResult
  /\ wResp = NoResp
  /\ wDone = <<>>

\* sandboxDeployHandler lines 14-22 and deploy: read the body, run the
\* generation stages, choose the service name.
sandboxDeployHandler ==
  /\ wPc \in {"idle", "done"}
  /\ Len(wDone) < MaxDeploys
  /\ \E body \in WorkerBodies : wReq' = body
  /\ \E name \in ServiceNames : wName' = name
  /\ wPc' = "ensure"
  /\ wLog' = <<>>
  /\ wAttempt' = 0
  /\ wReady' = "none"
  /\ wProbes' = NoProbes
  /\ wReadyBy' = NoProbe
  /\ wDeployed' = NoResult
  /\ wResp' = NoResp
  /\ UNCHANGED <<wEnv, cfServices, wDone>>
  /\ WorkerOnly

\* uploadModuleWorker returns r to deploy, which returns it to the handler.
Return(r) ==
  /\ wDeployed' = r
  /\ wPc' = "respond"

\* What the platform answers to PUT .../workers/services/{name}.
ServiceCreateStatus(name) ==
  IF name \in cfServices THEN {409, 500} ELSE {200, 403, 500}

\* Mutation of EnsureFailed: a conflict counts as a failure.
EnsureFailedOnConflict(status) == ~HttpOk(status)

\* if (!r.ok && r.status !== 409)
EnsureFailed(status) == ~HttpOk(status) /\ status # 409

\* uploadModuleWorker lines 216-234: the account check, then the request
\* that ensures the service (cf throws without credentials, which the
\* handler catches).
uploadEnsureService ==
  /\ wPc = "ensure"
  /\ IF ~wEnv.account
     THEN /\ Return([NoResult EXCEPT
                       !.error = Some("Missing CLOUDFLARE_ACCOUNT_ID")])
          /\ UNCHANGED <<cfServices, wLog, wResp, wDone>>
     ELSE IF ~wEnv.auth
     THEN /\ wDeployed' = [NoResult EXCEPT
                             !.error = Some("Missing Cloudflare auth.")]
          /\ wPc' = "caught"
          /\ UNCHANGED <<cfServices, wLog, wResp, wDone>>
     ELSE \E st \in ServiceCreateStatus(wName) :
            /\ wLog' = Append(wLog, [op |-> "ensure", status |-> st])
            /\ cfServices' = IF HttpOk(st) THEN cfServices \cup {wName}
                             ELSE cfServices
            /\ IF EnsureFailed(st)
               THEN Return(FailResult("Create service failed", st, "service"))
               ELSE wPc' = "script" /\ UNCHANGED wDeployed
            /\ UNCHANGED <<wResp, wDone>>
  /\ UNCHANGED <<wEnv, wReq, wName, wAttempt, wReady, wProbes, wReadyBy>>
  /\ WorkerOnly

\* Mutation of uploadScript: the failed upload does not end the call.
uploadScriptIgnoringFailure ==
  /\ wPc = "script"
  /\ \E st \in {200, 400} :
       wLog' = Append(wLog, [op |-> "script", status |-> st])
  /\ wPc' = "settings"
  /\ UNCHANGED <<wEnv, cfServices, wReq, wName, wAttempt, wReady, wProbes,
                 wReadyBy, wDeployed, wResp, wDone>>
  /\ WorkerOnly

\* uploadModuleWorker lines 236-248: upload the module code.
uploadScript ==
  /\ wPc = "script"
  /\ \E st \in {200, 400} :
       /\ wLog' = Append(wLog, [op |-> "script", status |-> st])
       /\ IF ~HttpOk(st)
          THEN Return(FailResult("Upload script failed", st, "script"))
          ELSE wPc' = "settings" /\ UNCHANGED wDeployed
  /\ UNCHANGED <<wEnv, cfServices, wReq, wName, wAttempt, wReady, wProbes,
                 wReadyBy, wResp, wDone>>
  /\ WorkerOnly

\* uploadModuleWorker lines 250-259: PATCH workers_dev.
uploadEnableWorkersDev ==
  /\ wPc = "settings"
  /\ \E st \in {200, 403} :
       /\ wLog' = Append(wLog, [op |-> "settings", status |-> st])
       /\ IF ~HttpOk(st)
          THEN Return(FailResult("Enable workers_dev failed", st, "settings"))
          ELSE wPc' = "verify" /\ UNCHANGED wDeployed
  /\ UNCHANGED <<wEnv, cfServices, wReq, wName, wAttempt, wReady, wProbes,
                 wReadyBy, wResp, wDone>>
  /\ WorkerOnly

\* uploadModuleWorker lines 275-277 and 294: compute the URL and either
\* poll or return.
StartPolling ==
  IF wEnv.subdomain
  THEN wPc' = "health" /\ UNCHANGED wDeployed
  ELSE Return([NoResult EXCEPT !.ok = TRUE, !.name = Some(wName)])

\* uploadModuleWorker lines 261-273: read the settings back.  In the
\* revision of part_007 (lines 136-143) a failed verification leads to the
\* Scripts settings instead of a return.
uploadVerify ==
  /\ wPc = "verify"
  /\ \E st \in {200, 500}, enabled \in BOOLEAN :
       /\ wLog' = Append(wLog, [op |-> IF enabled THEN "verify_on"
                                       ELSE "verify_off", status |-> st])
       /\ IF ~HttpOk(st) \/ ~enabled
          THEN IF wEnv.scriptsFallback
               THEN wPc' = "settings_scripts" /\ UNCHANGED wDeployed
               ELSE Return(FailResult(
                      "workers.dev appears disabled after PATCH", st,
                      "settings"))
          ELSE StartPolling
  /\ UNCHANGED <<wEnv, cfServices, wReq, wName, wAttempt, wReady, wProbes,
                 wReadyBy, wResp, wDone>>
  /\ WorkerOnly

\* uploadModuleWorker of part_007, lines 144-160: PATCH workers_dev on the
\* Scripts settings.
uploadEnableScripts ==
  /\ wPc = "settings_scripts"
  /\ \E st \in {200, 403} :
       /\ wLog' = Append(wLog, [op |-> "settings_scripts", status |-> st])
       /\ IF ~HttpOk(st)
          THEN Return(FailResult("Enable workers_dev (scripts) failed", st,
                                 "scripts_settings"))
          ELSE wPc' = "verify_scripts" /\ UNCHANGED wDeployed
  /\ UNCHANGED <<wEnv, cfServices, wReq, wName, wAttempt, wReady, wProbes,
                 wReadyBy, wResp, wDone>>
  /\ WorkerOnly

\* uploadModuleWorker of part_007, lines 162-177: verify on the Scripts
\* settings; the failure is reported with status 200.
uploadVerifyScripts ==
  /\ wPc = "verify_scripts"
  /\ \E st \in {200, 500}, enabled \in BOOLEAN :
       /\ wLog' = Append(wLog, [op |-> IF enabled THEN "verify_scripts_on"
                                       ELSE "verify_scripts_off",
                                status |-> st])
       /\ IF ~HttpOk(st) \/ ~enabled
          THEN Return(FailResult(
                 "workers.dev appears disabled after PATCH", 200,
                 "scripts_settings"))
          ELSE StartPolling
  /\ UNCHANGED <<wEnv, cfServices, wReq, wName, wAttempt, wReady, wProbes,
                 wReadyBy, wResp, wDone>>
  /\ WorkerOnly

\* const okish = (s) => (s >= 200 && s < 300) || s === 302
okish(s) == (s >= 200 /\ s < 300) \/ s = 302

\* What a probe of the deployed URL may give: the fetch rejects (status 0),
\* or a response with a status, a content type and a body.
Probes ==
  [status : {0, 200, 302, 404}, html : BOOLEAN, placeholder : BOOLEAN]

\* waitForReadiness returned true on probe p of a path: uploadModuleWorker
\* line 294.
Ready(path, p) ==
  /\ wReady' = "ready"
  /\ wReadyBy' = [path |-> path, status |-> p.status, html |-> p.html,
                  placeholder |-> p.placeholder]
  /\ wProbes' = [wProbes EXCEPT ![path] = @ + 1]
  /\ Return([NoResult EXCEPT !.ok = TRUE, !.name = Some(wName),
                             !.url = Some(WorkersDevUrl(wName))])
  /\ UNCHANGED wAttempt

\* Mutation of Sleep: the loop counter is not advanced.
SleepWithoutCounting ==
  /\ UNCHANGED <<wAttempt, wReady, wReadyBy, wDeployed>>
  /\ wProbes' = NoProbes
  /\ wPc' = "health"

\* The end of one iteration (the sleep), and of the loop after the last.
Sleep ==
  /\ wAttempt' = wAttempt + 1
  /\ wProbes' = NoProbes
  /\ UNCHANGED wReadyBy
  /\ IF wAttempt + 1 < READINESS_ATTEMPTS
     THEN wPc' = "health" /\ UNCHANGED wReady
     ELSE wPc' = "snapshot" /\ wReady' = "exhausted"
  /\ UNCHANGED wDeployed

\* waitForReadiness lines 304-307: the probe of /api/health.
waitForReadinessHealth ==
  /\ wPc = "health"
  /\ \E p \in Probes :
       IF p.status = 0 THEN Sleep
       ELSE IF okish(p.status) THEN Ready("health", p)
       ELSE /\ wPc' = "root"
            /\ wProbes' = [wProbes EXCEPT !.health = @ + 1]
            /\ UNCHANGED <<wAttempt, wReady, wReadyBy, wDeployed>>
  /\ UNCHANGED <<wEnv, cfServices, wReq, wName, wLog, wResp, wDone>>
  /\ WorkerOnly

\* waitForReadiness lines 309-318: the probe of the root, then the sleep.
waitForReadinessRoot ==
  /\ wPc = "root"
  /\ \E p \in Probes :
       IF p.status # 0 /\ okish(p.status) /\ (~p.html \/ ~p.placeholder)
       THEN Ready("root", p)
       ELSE Sleep
  /\ UNCHANGED <<wEnv, cfServices, wReq, wName, wLog, wResp, wDone>>
  /\ WorkerOnly

\* uploadModuleWorker lines 279-291: readiness gave up; snapshot the
\* settings and return the failure with the URL.
uploadSnapshot ==
  /\ wPc = "snapshot"
  /\ \E st \in {200, 500} :
       wLog' = Append(wLog, [op |-> "snapshot", status |-> st])
  /\ Return([NoResult EXCEPT !.url = Some(WorkersDevUrl(wName)),
                             !.status = Some(200),
                             !.error = Some(NotServing),
                             !.endpoint = Some("url")])
  /\ UNCHANGED <<wEnv, cfServices, wReq, wName, wAttempt, wReady, wProbes,
                 wReadyBy, wResp, wDone>>
  /\ WorkerOnly

\* The status of the ensure request of the call in progress (0 if none).
EnsureStatus == IF wLog = <<>> THEN 0 ELSE wLog[1].status

\* sandboxDeployHandler lines 24-50: the response built from `deployed`,
\* or by the catch block from the error thrown.
sandboxDeployRespond ==
  /\ wPc \in {"respond", "caught"}
  /\ wResp' =
       IF wPc = "caught"
       THEN json([ok |-> Some(FALSE), error |-> wDeployed.error], 500)
       ELSE IF ~wDeployed.ok
       THEN json([ok |-> Some(FALSE),
                  error |-> IF wDeployed.error = None
                            THEN Some("deploy failed") ELSE wDeployed.error,
                  status |-> wDeployed.status,
                  endpoint |-> wDeployed.endpoint], 500)
       ELSE json([ok |-> Some(TRUE),
                  url |-> wDeployed.url,
                  name |-> wDeployed.name,
                  ir |-> Some("ir")], 200)
  /\ wPc' = "done"
  /\ wDone' = Append(wDone, [name |-> wName, ensure |-> EnsureStatus,
                             ok |-> wDeployed.ok])
  /\ UNCHANGED <<wEnv, cfServices, wReq, wName, wLog, wAttempt, wReady,
                 wProbes, wReadyBy, wDeployed>>
  /\ WorkerOnly

(***************************************************************************)
(* /sandbox-deploy, static-bundle strategy with the function strategy as   *)
(* an option: sandboxDeployHandler of src/api/sandbox-deploy.ts, lines     *)
(* 318-361 (named sandboxDeployHandlerDual here, the name being taken by   *)
(* the revision above), cfJSON, deployPagesDirect, deployWorker and        *)
(* deletePagesProject.                                                     *)
(***************************************************************************)
LowerCaseLetters ==
  {"a", "b", "c", "d", "e", "f", "g", "h", "i", "j", "k", "l", "m", "n",
   "o", "p", "q", "r", "s", "t", "u", "v", "w", "x", "y", "z"}
Digits == {"0", "1", "2", "3", "4", "5", "6", "7", "8", "9"}
\* String.prototype.toLowerCase on the characters the requests use.
ToLowerChar(c) ==
  CASE c = "M" -> "m" [] c = "A" -> "a" [] OTHER -> c
\* .toLowerCase().replace(/[^a-z0-9\-]/g, "-")
NormalName(s) ==
  [i \in 1..Len(s) |->
     IF ToLowerChar(s[i]) \in LowerCaseLetters \cup Digits \cup {"-"}
     THEN ToLowerChar(s[i]) ELSE "-"]

\* pickName("lw-sbx"): the names its random suffix can give.
PickedNames == {<<"l", "w", "-", "7">>}
RequestNames == {<<"M", "y", " ", "A">>, <<"m", "y", "-", "a">>}

\* The files deployPagesDirect builds (lines 164-251), by path.
GeneratedFiles(name) ==
  [p \in {"index.html", "_worker.js"} |-> <<"generated", p, name>>]
\* A bundle a client may put in the request body.
ClientFiles == [p \in {"index.html"} |-> <<"client", p>>]
PagesUrl(name) == <<"https://", name, ".pages.dev">>

PagesBodies ==
  [confirm : {"absent", "false", "true"},
   mode : {None, Some("pages"), Some("workers")},
   name : {None} \cup {Some(n) : n \in RequestNames},
   ephemeral : BOOLEAN,
   files : {None, Some(ClientFiles)}]
NoPagesBody ==
  [confirm |-> "absent", mode |-> None, name |-> None, ephemeral |-> FALSE,
   files |-> None]

\* new Error(...).message as a sequence of words.
\* /already exists|exists/i.test(msg)
ExistsTest(msg) ==
  \E i \in 1..Len(msg) : msg[i] \in {"exists", "Exists", "EXISTS"}
\* /workers\.dev.*disabled|workers_dev/i.test(msg)
WorkersDevTest(msg) ==
  \E i \in 1..Len(msg) : msg[i] \in {"workers_dev", "WORKERS_DEV"}

InitPages ==
  /\ pEnv \in [token : BOOLEAN, account : BOOLEAN,
               defaultMode : {None, Some("workers")}]
  /\ cfProjects \in {{}, {NormalName(n) : n \in RequestNames}}
  /\ cfScripts = {}
  /\ pPc = "idle"
  /\ pReq = NoPagesBody
  /\ pName = <<>>
  /\ pEphemeral = FALSE
  /\ pFallback = FALSE
  /\ pLog = <<>>
  /\ pErr = <<>>
  /\ pScheduled = {}
  /\ pResp = NoResp
  /\ pServed = 0

\* sandboxDeployHandler lines 324-333: the confirm check, then mode, name
\* and ephemeral.
sandboxDeployHandlerDual ==
  /\ pPc \in {"idle", "done"}
  /\ pServed < MaxDeploys
  /\ pServed' = pServed + 1
  /\ pLog' = <<>>
  /\ pErr' = <<>>
  /\ pFallback' = FALSE
  /\ \E payload \in PagesBodies, picked \in PickedNames :
       /\ pReq' = payload
       /\ IF payload.confirm # "true"
          THEN /\ pResp' = json([ok |-> Some(FALSE),
                                 error |-> Some("confirm=false")], 400)
               /\ pPc' = "done"
               /\ UNCHANGED <<pName, pEphemeral>>
          ELSE LET desired ==
                     IF payload.mode # None THEN payload.mode[1]
                     ELSE IF pEnv.defaultMode # None THEN pEnv.defaultMode[1]
                     ELSE "pages"
               IN /\ pName' = NormalName(IF payload.name # None
                                         THEN payload.name[1] ELSE picked)
                  /\ pEphemeral' = payload.ephemeral
                  /\ pPc' = IF desired = "workers" THEN "worker" ELSE "create"
                  /\ pResp' = NoResp
  /\ UNCHANGED <<pEnv, cfProjects, cfScripts, pScheduled>>
  /\ PagesOnly

\* A throw that reaches the handler's outer catch.
Throw(msg) ==
  /\ pErr' = msg
  /\ pPc' = "caught"

\* requireAccount and bearer: the error thrown, if any.
MissingSetting ==
  IF ~pEnv.account THEN <<"Missing", "CLOUDFLARE_ACCOUNT_ID">>
  ELSE IF ~pEnv.token THEN <<"Missing", "CLOUDFLARE_API_TOKEN">>
  ELSE <<>>

\* deployWorker (lines 296-314) and the handler's lines 334-351: upload the
\* script; no URL comes back, so the handler falls back to Pages; a failure
\* whose text names workers_dev falls back as well.
deployWorker ==
  /\ pPc = "worker"
  /\ IF MissingSetting # <<>>
     THEN Throw(MissingSetting) /\ UNCHANGED <<cfScripts, pLog, pFallback>>
     ELSE \E ans \in {<<200, "ok">>, <<403, "forbidden">>,
                      <<400, "workers_dev">>} :
            /\ pLog' = Append(pLog, [op |-> "worker", status |-> ans[1]])
            /\ IF HttpOk(ans[1])
               THEN /\ cfScripts' = cfScripts \cup {pName}
                    /\ pPc' = "create"
                    /\ pFallback' = TRUE
                    /\ UNCHANGED pErr
               ELSE /\ UNCHANGED cfScripts
                    /\ LET msg == <<"Worker", "upload", "failed:", "HTTP",
                                    ToString(ans[1]), ans[2]>>
                       IN IF WorkersDevTest(msg)
                          THEN /\ pPc' = "create"
                               /\ pFallback' = TRUE
                               /\ UNCHANGED pErr
                          ELSE Throw(msg) /\ UNCHANGED pFallback
  /\ UNCHANGED <<pEnv, cfProjects, pReq, pName, pEphemeral, pScheduled,
                 pResp, pServed>>
  /\ PagesOnly

\* What the platform may answer to POST .../pages/projects: a status, the
\* success member of the body, and the message of its first error.
ProjectCreateAnswers(name) ==
  IF name \in cfProjects
  THEN {[status |-> 409, success |-> FALSE, cause |-> "exists",
         message |-> Some(<<"A", "project", "with", "this", "name",
                            "already", "exists">>)],
        [status |-> 409, success |-> FALSE, cause |-> "exists",
         message |-> Some(<<"Project", "name", "is", "taken">>)],
        [status |-> 409, success |-> FALSE, cause |-> "exists",
         message |-> None]}
  ELSE {[status |-> 200, success |-> TRUE, cause |-> "none",
         message |-> None],
        [status |-> 200, success |-> FALSE, cause |-> "other",
         message |-> Some(<<"Invalid", "build", "config">>)],
        [status |-> 403, success |-> FALSE, cause |-> "other",
         message |-> Some(<<"Authentication", "error">>)],
        [status |-> 400, success |-> FALSE, cause |-> "other",
         message |-> Some(<<"The", "account", "no", "longer", "exists">>)]}

\* cfJSON lines 111-114: the message of the error thrown (<<>> if none).
cfJSON(ans) ==
  IF ~HttpOk(ans.status) \/ ~ans.success
  THEN (IF ans.message # None THEN ans.message[1]
        ELSE <<"HTTP", ToString(ans.status)>>) \o <<"--", "url">>
  ELSE <<>>

\* deployPagesDirect line 157: the create error is rethrown.
CreateErrorFatal(msg) == msg # <<>> /\ ~ExistsTest(msg)

\* deployPagesDirect lines 144-158: create the project if missing.
deployPagesDirectCreate ==
  /\ pPc = "create"
  /\ IF MissingSetting # <<>>
     THEN Throw(MissingSetting) /\ UNCHANGED <<cfProjects, pLog>>
     ELSE \E ans \in ProjectCreateAnswers(pName) :
            /\ pLog' = Append(pLog, [op |-> "create", status |-> ans.status,
                                     cause |-> ans.cause,
                                     error |-> cfJSON(ans)])
            /\ cfProjects' = IF cfJSON(ans) = <<>>
                             THEN cfProjects \cup {pName} ELSE cfProjects
            /\ IF CreateErrorFatal(cfJSON(ans))
               THEN Throw(cfJSON(ans))
               ELSE pPc' = "upload" /\ UNCHANGED pErr
  /\ UNCHANGED <<pEnv, cfScripts, pReq, pName, pEphemeral, pFallback,
                 pScheduled, pResp, pServed>>
  /\ PagesOnly

\* deployPagesDirect lines 248-291: upload the deployment.
deployPagesDirectUpload ==
  /\ pPc = "upload"
  /\ \E st \in (IF pName \in cfProjects THEN {200, 500} ELSE {404}) :
       /\ pLog' = Append(pLog, [op |-> "deploy", status |-> st,
                                assets |-> GeneratedFiles(pName)])
       /\ IF HttpOk(st)
          THEN pPc' = "respond" /\ UNCHANGED pErr
          ELSE Throw(<<"Pages", "deploy", "failed:", "HTTP", ToString(st)>>)
  /\ UNCHANGED <<pEnv, cfProjects, cfScripts, pReq, pName, pEphemeral,
                 pFallback, pScheduled, pResp, pServed>>
  /\ PagesOnly

\* sandboxDeployHandler lines 338-339, 356-359: schedule the deletion and
\* answer, or answer from the outer catch.
sandboxDeployRespondDual ==
  /\ pPc \in {"respond", "caught"}
  /\ IF pPc = "caught"
     THEN /\ pResp' = json([ok |-> Some(FALSE), error |-> Some(pErr)], 500)
          /\ UNCHANGED pScheduled
     ELSE /\ pResp' = json([ok |-> Some(TRUE), name |-> Some(pName),
                            url |-> Some(PagesUrl(pName)),
                            fallback |-> IF pFallback THEN Some("pages")
                                         ELSE None], 200)
          /\ pScheduled' = IF pEphemeral
                           THEN pScheduled \cup {pName} ELSE pScheduled
  /\ pPc' = "done"
  /\ UNCHANGED <<pEnv, cfProjects, cfScripts, pReq, pName, pEphemeral,
                 pFallback, pLog, pErr, pServed>>
  /\ PagesOnly

\* deletePagesProject (lines 125-131), run by ctx.waitUntil after the
\* response: the DELETE request, whose answer is not looked at.
deletePagesProject ==
  /\ \E name \in pScheduled :
       /\ pScheduled' = pScheduled \ {name}
       /\ \E deleted \in BOOLEAN :
            cfProjects' = IF deleted THEN cfProjects \ {name} ELSE cfProjects
  /\ UNCHANGED <<pEnv, cfScripts, pPc, pReq, pName, pEphemeral, pFallback,
                 pLog, pErr, pResp, pServed>>
  /\ PagesOnly

(***************************************************************************)
(* The orchestrator's router: fetch of src/index.ts in the revisions the   *)
(* repository holds.  A pathname is the sequence of its segments: "/" is   *)
(* <<"">>, "/mvp" is <<"mvp">>, "/api/mvp/" is <<"api", "mvp", "">>.       *)
(***************************************************************************)
RouterRevisions == {"index_plain", "index_cors", "part_012", "part_013"}

Methods == {"GET", "POST", "PUT", "OPTIONS"}

\* The ways a client may write the path of x: /x, /x/, /api/x, /api/x/.
PathForms(x) == {<<x>>, <<x, "">>, <<"api", x>>, <<"api", x, "">>}

RouteNames == {"health", "mvp", "sandbox-deploy", "github-export"}

Pathnames ==
  {<<"">>, <<"api">>, <<"api", "">>, <<"nope">>, <<"api", "nope">>}
    \cup UNION {PathForms(x) : x \in RouteNames}

\* Mutation of normalizePath: the trailing slash is kept.
normalizePathKeepingSlash(pathname) ==
  IF pathname = <<"api">> THEN <<"">>
  ELSE IF Len(pathname) > 1 /\ pathname[1] = "api" THEN Tail(pathname)
  ELSE pathname

\* The requests: method, pathname, ?stream=true, Accept includes text/html.
Requests ==
  [method : Methods, pathname : Pathnames, stream : BOOLEAN,
   acceptsHTML : BOOLEAN]

NoRequest ==
  [method |-> "none", pathname |-> <<>>, stream |-> FALSE,
   acceptsHTML |-> FALSE]

\* A response as the client sees it.  allow is the Allow header (None if
\* absent), cors says whether the Access-Control-Allow-* headers are set,
\* by says whether the router or the runtime (on an uncaught exception)
\* produced it.
Response(status, contentType, body) ==
  [status |-> status, contentType |-> contentType, body |-> body,
   cors |-> FALSE, allow |-> None, by |-> "router"]

NoResponse == Response(0, "none", "none")

\* The runtime's answer to an exception that fetch let escape.
RuntimeError == [Response(500, "text/html", "html") EXCEPT !.by = "runtime"]

\* normalizePath of part_013, lines 23-29.
normalizePath(pathname) ==
  LET p == IF Len(pathname) > 1 /\ pathname[Len(pathname)] = ""
           THEN SubSeq(pathname, 1, Len(pathname) - 1)
           ELSE pathname
  IN IF p = <<"api">> THEN <<"">>
     ELSE IF Len(p) > 1 /\ p[1] = "api" THEN Tail(p)
     ELSE p

\* url.pathname.replace(/\/+$/, "") || "/" of part_012, line 19.
RECURSIVE StripTrailingSlashes(_)
StripTrailingSlashes(pathname) ==
  IF pathname = <<>> THEN <<"">>
  ELSE IF pathname[Len(pathname)] = ""
       THEN StripTrailingSlashes(SubSeq(pathname, 1, Len(pathname) - 1))
       ELSE pathname

\* The key the revision looks the route up with.
RouteKey(rev, pathname) ==
  CASE rev = "part_013" -> normalizePath(pathname)
    [] rev = "part_012" -> StripTrailingSlashes(pathname)
    [] OTHER -> pathname

\* The route tables: route key -> methods with their handler, and allow.
RoutesPlain ==
  {[key |-> <<"health">>, methods |-> {"GET"}, handler |-> "health",
    allow |-> None],
   [key |-> <<"mvp">>, methods |-> {"POST"}, handler |-> "mvp",
    allow |-> None],
   [key |-> <<"sandbox-deploy">>, methods |-> {"POST"},
    handler |-> "sandbox-deploy", allow |-> None],
   [key |-> <<"github-export">>, methods |-> {"POST"},
    handler |-> "github-export", allow |-> None]}

RoutesWithAllow ==
  {[key |-> <<"">>, methods |-> {"GET"}, handler |-> "health",
    allow |-> Some({"GET", "OPTIONS"})],
   [key |-> <<"health">>, methods |-> {"GET", "POST"}, handler |-> "health",
    allow |-> Some({"GET", "POST", "OPTIONS"})],
   [key |-> <<"mvp">>, methods |-> {"POST"}, handler |-> "mvp",
    allow |-> Some({"POST", "OPTIONS"})],
   [key |-> <<"sandbox-deploy">>, methods |-> {"POST"},
    handler |-> "sandbox-deploy", allow |-> Some({"POST", "OPTIONS"})],
   [key |-> <<"github-export">>, methods |-> {"POST"},
    handler |-> "github-export", allow |-> Some({"POST", "OPTIONS"})]}

routes(rev) == IF rev = "part_013" THEN RoutesWithAllow ELSE RoutesPlain

\* What a handler hands back to the router: a Response, or it throws.
Thrown == [Response(0, "none", "none") EXCEPT !.by = "thrown"]

HandlerAnswers(handler, req) ==
  CASE handler = "health" -> {Response(200, "application/json", "json")}
    [] handler = "mvp" ->
         IF req.stream
         THEN {Response(200, "application/x-ndjson", "ndjson")}
         ELSE {Response(200, "application/json", "json"), Thrown}
    [] handler = "sandbox-deploy" ->
         {Response(s, "application/json", "json") : s \in {200, 400, 500}}
    [] handler = "github-export" ->
         {Response(s, "application/json", "json") : s \in {200, 400}}
           \cup {Thrown}

\* What serveAssets answers: the asset if the ASSETS binding has it, else
\* for a GET that accepts HTML the index page if there is one, else the
\* text "Not found".
AssetAnswers(req) ==
  {Response(200, "text/html", "asset")}
    \cup (IF req.method = "GET" /\ req.acceptsHTML
          THEN {Response(200, "text/html", "index")}
          ELSE {})
    \cup {Response(404, "text/plain", "text")}

\* withCors: the response with the CORS headers set.  The revision of
\* part_012 copies the response with { ...res, headers }: status is an
\* accessor of the prototype, the spread does not copy it, and the copy
\* has the default status 200.
withCors(rev, res) ==
  IF rev = "part_012"
  THEN [res EXCEPT !.cors = TRUE, !.status = 200]
  ELSE [res EXCEPT !.cors = TRUE]

preflight(rev) == withCors(rev, Response(204, "none", "none"))

InitRouter ==
  /\ rRev \in RouterRevisions
  /\ rPc = "idle"
  /\ rReq = NoRequest
  /\ rRoute = None
  /\ rInvoked = None
  /\ rResp = NoResponse

Respond(res) ==
  /\ rPc' = "idle"
  /\ rResp' = res

\* fetch up to the first await: the preflight, the route lookup, the 404
\* and 405 the router answers itself.
fetch ==
  /\ rPc = "idle"
  /\ \E req \in Requests :
       LET key == RouteKey(rRev, req.pathname)
           known == {r \in routes(rRev) : r.key = key}
           match == {r \in known : req.method \in r.methods}
           isPreflight ==
             /\ req.method = "OPTIONS"
             /\ \/ rRev \in {"part_012", "part_013"}
                \/ rRev = "index_cors" /\ known # {}
       IN /\ rReq' = req
          /\ rInvoked' = None
          /\ IF isPreflight
             THEN Respond(preflight(rRev)) /\ rRoute' = None
             ELSE IF match # {}
             THEN /\ rPc' = "handler"
                  /\ rRoute' = Some(CHOOSE r \in match : TRUE)
                  /\ UNCHANGED rResp
             ELSE IF rRev = "part_013" /\ known # {}
             THEN /\ Respond(withCors(rRev,
                       [Response(405, "text/plain", "text")
                          EXCEPT !.allow = (CHOOSE r \in known : TRUE).allow]))
                  /\ rRoute' = None
             ELSE IF rRev = "part_012"
             THEN /\ Respond(withCors(rRev,
                       Response(404, "application/json", "json")))
                  /\ rRoute' = None
             ELSE rPc' = "assets" /\ rRoute' = None /\ UNCHANGED rResp
  /\ UNCHANGED rRev
  /\ RouterOnly

\* The awaited handler settles.
fetchHandler ==
  /\ rPc = "handler"
  /\ rInvoked' = Some(rRoute[1].handler)
  /\ \E res \in HandlerAnswers(rRoute[1].handler, rReq) :
       IF res = Thrown
       THEN IF rRev = "part_012"
            THEN Respond(withCors(rRev,
                   Response(500, "application/json", "json")))
            ELSE Respond(RuntimeError)
       ELSE IF rRev = "index_plain"
            THEN Respond(res)
            ELSE Respond(withCors(rRev, res))
  /\ UNCHANGED <<rRev, rReq, rRoute>>
  /\ RouterOnly

\* The awaited serveAssets settles.
serveAssets ==
  /\ rPc = "assets"
  /\ \E res \in AssetAnswers(rReq) :
       IF rRev = "part_013"
       THEN Respond(withCors(rRev, res))
       ELSE Respond(res)
  /\ UNCHANGED <<rRev, rReq, rRoute, rInvoked>>
  /\ RouterOnly

(***************************************************************************)
(* safeParseJson of src/api/mvp.ts.  A text is a sequence of tokens: the   *)
(* braces, a member `"a":1` ("v"), a key with its colon ("k:"), a word of  *)
(* prose ("p") and white space (" ").                                      *)
(***************************************************************************)
MaxTextLen == 5

TextTokens == {"{", "}", "v", "k:", "p", " "}

Texts == UNION {[1..n -> TextTokens] : n \in 0..MaxTextLen}

\* The grammar of an object: {}, {"a":1}, {"k":<object>}.
RECURSIVE IsObject(_)
IsObject(t) ==
  /\ Len(t) >= 2
  /\ t[1] = "{"
  /\ t[Len(t)] = "}"
  /\ LET inner == SubSeq(t, 2, Len(t) - 1)
     IN \/ inner = <<>>
        \/ inner = <<"v">>
        \/ Len(inner) >= 3 /\ inner[1] = "k:" /\ IsObject(Tail(inner))

\* JSON.parse(s): white space between the tokens is insignificant; the value
\* is the object without it, None stands for the SyntaxError thrown.
JSONparse(s) ==
  LET t == SelectSeq(s, LAMBDA c : c # " ")
  IN IF IsObject(t) THEN Some(t) ELSE None

\* s.indexOf(c) and s.lastIndexOf(c), counted from 1 (0 if absent).
indexOf(s, c) ==
  IF \E i \in 1..Len(s) : s[i] = c
  THEN CHOOSE i \in 1..Len(s) : s[i] = c /\ \A j \in 1..(i - 1) : s[j] # c
  ELSE 0
lastIndexOf(s, c) ==
  IF \E i \in 1..Len(s) : s[i] = c
  THEN CHOOSE i \in 1..Len(s) :
         s[i] = c /\ \A j \in (i + 1)..Len(s) : s[j] # c
  ELSE 0

\* safeParseJson, lines 183-203.
safeParseJson(raw) ==
  LET s == trim(raw)
  IN IF s = <<>> THEN None
     ELSE IF JSONparse(s) # None THEN JSONparse(s)
     ELSE LET start == indexOf(s, "{")
              end == lastIndexOf(s, "}")
          IN IF start >= 1 /\ end > start
             THEN JSONparse(SubSeq(s, start, end))
             ELSE None

InitParse ==
  /\ sPc = "idle"
  /\ sRaw \in Texts
  /\ sParsed = None

\* callOpenAI line 148: const parsed = safeParseJson(text).
callSafeParseJson ==
  /\ sPc = "idle"
  /\ sParsed' = safeParseJson(sRaw)
  /\ sPc' = "returned"
  /\ UNCHANGED sRaw
  /\ ParseOnly


(***************************************************************************)
(* The Pages proxy that sandboxDeployHandler generates as _worker.js       *)
(* (src/api/sandbox-deploy.ts, the workerJs template).  A pathname is the  *)
(* sequence of its pieces, "/" being a piece of its own, so that the       *)
(* substring tests of the code (startsWith, includes, indexOf,             *)
(* lastIndexOf, endsWith) are tests on subsequences: no piece is a prefix  *)
(* or a suffix of another one.                                             *)
(***************************************************************************)
MaxPathLen == 5

KnownRoutes == <<"mvp", "health", "github-export", "sandbox-deploy">>
PathPieces == {"/", "api", "x"} \cup Range(KnownRoutes)
ProxyPathnames ==
  {p \in UNION {[1..n -> PathPieces] : n \in 1..MaxPathLen} : p[1] = "/"}
ProxyMethods == {"GET", "POST", "OPTIONS"}

startsWith(s, t) == Len(s) >= Len(t) /\ SubSeq(s, 1, Len(t)) = t
endsWith(s, t) ==
  Len(s) >= Len(t) /\ SubSeq(s, Len(s) - Len(t) + 1, Len(s)) = t
\* positions (from 0, as in the code) at which t occurs in s
Occurrences(s, t) ==
  {i \in 0..(Len(s) - Len(t)) : SubSeq(s, i + 1, i + Len(t)) = t}
includes(s, t) == Occurrences(s, t) # {}
indexOfString(s, t) ==
  IF Occurrences(s, t) = {} THEN -1
  ELSE CHOOSE i \in Occurrences(s, t) : \A j \in Occurrences(s, t) : i <= j
lastIndexOfString(s, t) ==
  IF Occurrences(s, t) = {} THEN -1
  ELSE CHOOSE i \in Occurrences(s, t) : \A j \in Occurrences(s, t) : i >= j
slice(s, from) == SubSeq(s, from + 1, Len(s))

isApiLike(path) ==
  LET p == IF endsWith(path, <<"/">>) /\ Len(path) > 1
           THEN SubSeq(path, 1, Len(path) - 1) ELSE path
  IN \/ p = <<"/", "api">> \/ startsWith(p, <<"/", "api", "/">>)
     \/ \E k \in 1..Len(KnownRoutes) : p = <<"/", KnownRoutes[k]>>
     \/ includes(p, <<"/", "api", "/">>)
     \/ \E k \in 1..Len(KnownRoutes) : endsWith(p, <<"/", KnownRoutes[k]>>)

\* for (const k of known) { i = path.lastIndexOf(k); if (i >= 0) return ... }
RECURSIVE sliceAtKnown(_, _)
sliceAtKnown(path, k) ==
  IF k > Len(KnownRoutes) THEN <<"/">>
  ELSE LET i == lastIndexOfString(path, <<"/", KnownRoutes[k]>>)
       IN IF i >= 0 THEN slice(path, i) ELSE sliceAtKnown(path, k + 1)

upstreamPath(path) ==
  LET idxApi == indexOfString(path, <<"/", "api", "/">>)
  IN IF path = <<"/", "api">> \/ path = <<"/", "api", "/">> THEN <<"/">>
     ELSE IF idxApi >= 0 THEN slice(path, idxApi + 2)
     ELSE sliceAtKnown(path, 1)

(***************************************************************************)
(* new URL(rel, ORCH) for a rel that starts with "/": one leading slash    *)
(* keeps the orchestrator's host and replaces its path; two or more        *)
(* leading slashes make rel scheme-relative, so that the piece after them  *)
(* is read as the host (and the constructor throws if there is none).      *)
(***************************************************************************)
RECURSIVE LeadingSlashes(_)
LeadingSlashes(s) ==
  IF s # <<>> /\ Head(s) = "/" THEN 1 + LeadingSlashes(Tail(s)) ELSE 0
RECURSIVE HostPieces(_)
HostPieces(s) ==
  IF s = <<>> \/ Head(s) = "/" THEN <<>>
  ELSE <<Head(s)>> \o HostPieces(Tail(s))
InvalidURL == [host |-> <<>>, pathname |-> <<>>]
OrchHost == <<"ORCH">>
URL(rel) ==
  IF LeadingSlashes(rel) < 2 THEN [host |-> OrchHost, pathname |-> rel]
  ELSE LET rest == slice(rel, LeadingSlashes(rel))
           host == HostPieces(rest)
           path == slice(rest, Len(host))
       IN IF host = <<>> THEN InvalidURL
          ELSE [host |-> host,
                pathname |-> IF path = <<>> THEN <<"/">> ELSE path]

NoProxyRequest == [method |-> "", pathname |-> <<>>]
ProxyRequests == [method : ProxyMethods, pathname : ProxyPathnames]

InitProxy ==
  /\ pxPc = "idle"
  /\ pxReq \in ProxyRequests
  /\ pxUpstream = None
  /\ pxResp = "none"

\* export default { async fetch(req, env) { ... } } of the generated worker
proxyFetch ==
  /\ pxPc = "idle"
  /\ pxPc' = "answered"
  /\ UNCHANGED pxReq
  /\ IF isApiLike(pxReq.pathname)
     THEN IF pxReq.method = "OPTIONS"
          THEN pxResp' = "preflight" /\ UNCHANGED pxUpstream
          ELSE LET upstream == URL(upstreamPath(pxReq.pathname))
               IN IF upstream = InvalidURL
                  THEN pxResp' = "threw" /\ UNCHANGED pxUpstream
                  ELSE /\ pxResp' = "upstream"
                       /\ pxUpstream' =
                            Some([method |-> pxReq.method,
                                  host |-> upstream.host,
                                  pathname |-> upstream.pathname])
     ELSE pxResp' = "spa" /\ UNCHANGED pxUpstream
  /\ ProxyOnly

(***************************************************************************)
(* The chat controller of the web app.  Two revisions of useSendHandler    *)
(* are modelled: "callback" is the useCallback of                          *)
(* app/src/hooks/useSendHandler.ts (lines 83-246), which streams with      *)
(* setTimeout ticks and is paired with useDeploymentHandler (part_020);    *)
(* "closure" is the plain closure of unnamed/part_018, which has the       *)
(* /build command.  A handler call works on the props of the render that   *)
(* created it: the thread it reads is the snapshot captured at the call,   *)
(* whatever updateIdea has stored since.                                   *)
(***************************************************************************)
MaxCalls == 2          \* handler calls on the thread
MaxChunks == 2         \* chunks in which a reply is revealed
DeployLogLines == 9    \* lines of handleBuildCommand

ChatRevisions == {"callback", "closure"}
Calls == 1..MaxCalls

Msg(role, kind, of, shown) ==
  [role |-> role, kind |-> kind, of |-> of, shown |-> shown,
   actions |-> FALSE, lines |-> <<>>]
\* initializeIdea: messages: [{ role: "assistant", content: "" }]
Greeting == Msg("assistant", "greeting", 0, 0)
UserMsg(k) == Msg("user", "text", k, 0)
Placeholder(k) == Msg("assistant", "placeholder", k, 0)
Partial(k, n) == Msg("assistant", "reply", k, n)
ErrorMsg(k) == Msg("assistant", "error", k, 0)
DeployLog(k, n) == Msg("assistant", "deploylog", k, n)

FileBundles == {{}, {"index.html"}}
MvpAnswers ==
  {a \in [thrown : BOOLEAN, ok : BOOLEAN,
          files : {None} \cup {Some(b) : b \in FileBundles}] :
     a.thrown => (~a.ok /\ a.files = None)}
DeployAnswers == [thrown : BOOLEAN, ok : BOOLEAN]

NoCall ==
  [pc |-> "idle", kind |-> "", via |-> "", snap |-> <<>>, len |-> 0, i |-> 0]

InitChat ==
  /\ cRev \in ChatRevisions
  /\ cMessages = <<Greeting>>
  /\ cLoading = FALSE
  /\ cBundle = None
  /\ cFiles = None
  /\ cCall = [k \in Calls |-> NoCall]
  /\ cDeploys = <<>>

\* the next handler call: calls are numbered in the order they are made
CanCall(k) ==
  /\ cCall[k].pc = "idle"
  /\ k > 1 => cCall[k - 1].pc # "idle"

\* const updated = [...thread]; updated[updated.length - 1] = msg
\* (on an empty array the assignment adds no element)
ReplaceLast(thread, msg) ==
  IF thread = <<>> THEN <<>>
  ELSE [thread EXCEPT ![Len(thread)] = msg]

\* ChatPanel: the textarea, Send and the action buttons are disabled while
\* loading
SendEnabled == ~cLoading
hasBundle == cBundle # None /\ cBundle[1] # {}
DeployEnabled == ~cLoading /\ hasBundle

SetCall(k, call) == cCall' = [cCall EXCEPT ![k] = call]

(***************************************************************************)
(* Revision "callback": handleSend of app/src/hooks/useSendHandler.ts.     *)
(***************************************************************************)
\* const baseMsgs = [...prior, { role: "user", content: ideaText }]
baseMsgs(k) == Append(cCall[k].snap, UserMsg(k))
\* renderAssistant(full): messages: [...baseMsgs, { role: "assistant", ... }]
renderAssistant(k, msg) == cMessages' = Append(baseMsgs(k), msg)

handleSend(k) ==
  /\ cRev = "callback"
  /\ CanCall(k)
  /\ SendEnabled
  /\ cLoading' = TRUE
  /\ cMessages' = Append(Append(cMessages, UserMsg(k)), Placeholder(k))
  /\ SetCall(k, [NoCall EXCEPT !.pc = "awaiting", !.kind = "send",
                               !.snap = cMessages])
  /\ UNCHANGED <<cRev, cBundle, cFiles, cDeploys>>
  /\ ChatOnly

\* what follows await postJSON("/api/mvp?debug=1", ...), up to finally
handleSendResponse(k) ==
  /\ cRev = "callback"
  /\ cCall[k].pc = "awaiting"
  /\ cCall[k].kind = "send"
  /\ cLoading' = FALSE
  /\ \E data \in MvpAnswers, len \in 1..MaxChunks :
       IF data.thrown \/ ~data.ok \/ data.files = None \/ data.files = Some({})
       THEN /\ renderAssistant(k, ErrorMsg(k))
            /\ SetCall(k, [cCall[k] EXCEPT !.pc = "done"])
            /\ UNCHANGED <<cBundle, cFiles>>
       ELSE /\ cFiles' = data.files
            /\ cBundle' = data.files
            /\ renderAssistant(k, Partial(k, 0))
            /\ SetCall(k, [cCall[k] EXCEPT !.pc = "ticking", !.len = len])
  /\ UNCHANGED <<cRev, cDeploys>>
  /\ ChatOnly

\* const tick = () => { ... }, run by setTimeout
tick(k) ==
  /\ cRev = "callback"
  /\ cCall[k].pc = "ticking"
  /\ IF cCall[k].i >= cCall[k].len
     THEN /\ SetCall(k, [cCall[k] EXCEPT !.pc = "done"])
          /\ UNCHANGED cMessages
     ELSE /\ renderAssistant(k, Partial(k, cCall[k].i + 1))
          /\ SetCall(k, [cCall[k] EXCEPT !.i = @ + 1])
  /\ UNCHANGED <<cRev, cLoading, cBundle, cFiles, cDeploys>>
  /\ ChatOnly

(***************************************************************************)
(* useDeploymentHandler (unnamed/part_020), behind the Build & Deploy      *)
(* button of ChatPanel and handed to the other hooks as handleConfirmBuild.*)
(***************************************************************************)
\* append(id, line): a functional update of the stored thread
append(messages, k, line) ==
  IF messages # <<>> /\ messages[Len(messages)].role = "assistant"
  THEN ReplaceLast(messages,
         [messages[Len(messages)] EXCEPT !.lines = Append(@, line)])
  ELSE Append(messages,
         [Msg("assistant", "deploy", k, 0) EXCEPT !.lines = <<line>>])

deploy(k) ==
  /\ cRev = "callback"
  /\ CanCall(k)
  /\ \E via \in {"button", "handleConfirmBuild"} :
       /\ via = "button" => DeployEnabled
       /\ IF ~hasBundle
          THEN /\ cMessages' = append(cMessages, k, "no bundle")
               /\ SetCall(k, [NoCall EXCEPT !.pc = "done", !.kind = "deploy",
                                            !.via = via, !.snap = cMessages])
               /\ UNCHANGED cDeploys
          ELSE /\ cMessages' =
                    append(append(cMessages, k, "started"), k, "steps")
               /\ cDeploys' = Append(cDeploys, [by |-> via, files |-> cBundle])
               /\ SetCall(k, [NoCall EXCEPT !.pc = "deploying",
                                            !.kind = "deploy", !.via = via,
                                            !.snap = cMessages])
  /\ UNCHANGED <<cRev, cLoading, cBundle, cFiles>>
  /\ ChatOnly

\* what follows await postJSON("/api/sandbox-deploy", ...)
deployResponse(k) ==
  /\ cRev = "callback"
  /\ cCall[k].pc = "deploying"
  /\ \E res \in DeployAnswers :
       cMessages' = append(cMessages, k,
                      IF res.thrown THEN "error"
                      ELSE IF ~res.ok THEN "failed" ELSE "complete")
  /\ SetCall(k, [cCall[k] EXCEPT !.pc = "done"])
  /\ UNCHANGED <<cRev, cLoading, cBundle, cFiles, cDeploys>>
  /\ ChatOnly

(***************************************************************************)
(* Revision "closure": handleSend and handleBuildCommand of part_018.      *)
(***************************************************************************)
\* thread = (ideas.find((i) => i.id === id) ?? activeIdea)?.messages ?? []
thread(k) == cCall[k].snap

handleSendClosure(k) ==
  /\ cRev = "closure"
  /\ CanCall(k)
  /\ SendEnabled
  /\ cLoading' = TRUE
  /\ \E content \in {"text", "/build"} :
       IF content = "/build"
       THEN \* handleBuildCommand up to await postJSON("/sandbox-deploy", ...)
            /\ cMessages' = Append(cMessages, DeployLog(k, 0))
            /\ cDeploys' = Append(cDeploys, [by |-> "/build", files |-> cFiles])
            /\ SetCall(k, [NoCall EXCEPT !.pc = "building", !.kind = "build",
                                         !.snap = cMessages])
       ELSE \* the optimistic user message, then the placeholder written
            \* over it from the same snapshot
            /\ cMessages' = Append(cMessages, Partial(k, 0))
            /\ UNCHANGED cDeploys
            /\ SetCall(k, [NoCall EXCEPT !.pc = "awaiting", !.kind = "send",
                                         !.snap = cMessages])
  /\ UNCHANGED <<cRev, cBundle, cFiles>>
  /\ ChatOnly

\* what follows await postJSON("/mvp", ...): the first chunk of streamText,
\* or the catch block
handleSendClosureResponse(k) ==
  /\ cRev = "closure"
  /\ cCall[k].pc = "awaiting"
  /\ \E data \in MvpAnswers, len \in 1..MaxChunks :
       IF data.thrown
       THEN /\ cMessages' = ReplaceLast(thread(k), ErrorMsg(k))
            /\ cLoading' = FALSE
            /\ SetCall(k, [cCall[k] EXCEPT !.pc = "done"])
            /\ UNCHANGED cFiles
       ELSE /\ cFiles' = IF data.ok /\ data.files # None
                         THEN data.files ELSE cFiles
            /\ \E i \in 1..len :
                 /\ cMessages' = ReplaceLast(thread(k), Partial(k, i))
                 /\ SetCall(k, [cCall[k] EXCEPT !.pc = "streaming",
                                                !.len = len, !.i = i])
            /\ UNCHANGED cLoading
  /\ UNCHANGED <<cRev, cBundle, cDeploys>>
  /\ ChatOnly

\* a later chunk of streamText, or the action buttons and finally
streamText(k) ==
  /\ cRev = "closure"
  /\ cCall[k].pc = "streaming"
  /\ IF cCall[k].i < cCall[k].len
     THEN /\ \E i \in (cCall[k].i + 1)..cCall[k].len :
               /\ cMessages' = ReplaceLast(thread(k), Partial(k, i))
               /\ SetCall(k, [cCall[k] EXCEPT !.i = i])
          /\ UNCHANGED cLoading
     ELSE /\ cMessages' =
               IF thread(k) = <<>> THEN <<>>
               ELSE ReplaceLast(thread(k),
                      [thread(k)[Len(thread(k))] EXCEPT !.actions = TRUE])
          /\ cLoading' = FALSE
          /\ SetCall(k, [cCall[k] EXCEPT !.pc = "done"])
  /\ UNCHANGED <<cRev, cBundle, cFiles, cDeploys>>
  /\ ChatOnly

\* handleBuildCommand after the await: one log line per step, the summary,
\* or the catch block
handleBuildCommand(k) ==
  /\ cRev = "closure"
  /\ cCall[k].pc \in {"building", "logging"}
  /\ IF cCall[k].pc = "building"
     THEN \E resp \in DeployAnswers :
            IF resp.thrown
            THEN /\ cMessages' = ReplaceLast(thread(k), ErrorMsg(k))
                 /\ cLoading' = FALSE
                 /\ SetCall(k, [cCall[k] EXCEPT !.pc = "done"])
            ELSE /\ cMessages' = ReplaceLast(thread(k), DeployLog(k, 1))
                 /\ UNCHANGED cLoading
                 /\ SetCall(k, [cCall[k] EXCEPT !.pc = "logging", !.i = 1])
     ELSE IF cCall[k].i < DeployLogLines
     THEN /\ cMessages' = ReplaceLast(thread(k), DeployLog(k, cCall[k].i + 1))
          /\ UNCHANGED cLoading
          /\ SetCall(k, [cCall[k] EXCEPT !.i = @ + 1])
     ELSE /\ cMessages' =
               ReplaceLast(thread(k),
                 [DeployLog(k, DeployLogLines) EXCEPT !.kind = "deployed"])
          /\ cLoading' = FALSE
          /\ SetCall(k, [cCall[k] EXCEPT !.pc = "done"])
  /\ UNCHANGED <<cRev, cBundle, cFiles, cDeploys>>
  /\ ChatOnly
(***************************************************************************)
(* Initial state and the specifications, one per handler: the handlers     *)
(* share no state, so each is checked on its own; Spec lets them all run.  *)
(***************************************************************************)
Init ==
  /\ InitGh
  /\ InitApp
  /\ InitOrch
  /\ InitWorker
  /\ InitPages
  /\ InitRouter
  /\ InitParse
  /\ InitProxy
  /\ InitChat

\* A handler that serves no request in the specification at hand.
GithubQuiet == InitGh /\ ghEnvOk /\ ~ghRepo
AppQuiet == InitApp /\ aEnvKey
OrchQuiet == InitOrch /\ oEnvKey
WorkerQuiet ==
  /\ InitWorker
  /\ wEnv = [account |-> TRUE, auth |-> TRUE, subdomain |-> TRUE,
             scriptsFallback |-> FALSE]
PagesQuiet ==
  /\ InitPages
  /\ pEnv = [token |-> TRUE, account |-> TRUE, defaultMode |-> None]
  /\ cfProjects = {}

RouterQuiet == InitRouter /\ rRev = "part_013"
ParseQuiet == InitParse /\ sRaw = <<>>
ChatQuiet == InitChat /\ cRev = "callback"
ProxyQuiet ==
  /\ pxPc = "idle"
  /\ pxReq = [method |-> "GET", pathname |-> <<"/">>]
  /\ pxUpstream = None
  /\ pxResp = "none"

NextGithub ==
  \E c \in Callers :
    \/ githubExportHandler(c)
    \/ ensureRepoGet(c)
    \/ ensureRepoCreate(c)
    \/ pushGet(c)
    \/ pushPut(c)
    \/ githubExportRespond(c)

InitGithub ==
  InitGh /\ AppQuiet /\ OrchQuiet /\ WorkerQuiet /\ PagesQuiet /\ RouterQuiet
  /\ ParseQuiet
  /\ ProxyQuiet
  /\ ChatQuiet
SpecGithub == InitGithub /\ [][NextGithub]_vars

NextApp ==
  \/ onRequestPost
  \/ onRequestPostFetch
  \/ onRequestPostGuard
  \/ onRequestPostRespond

InitAppOnly ==
  InitApp /\ GithubQuiet /\ OrchQuiet /\ WorkerQuiet /\ PagesQuiet /\ RouterQuiet
  /\ ParseQuiet
  /\ ProxyQuiet
  /\ ChatQuiet
SpecApp == InitAppOnly /\ [][NextApp]_vars

NextOrch ==
  \/ mvpHandler
  \/ callOpenAI
  \/ mvpHandlerEnsureRepo
  \/ ensureRepoGet(OrchCaller)
  \/ ensureRepoCreate(OrchCaller)
  \/ pushGet(OrchCaller)
  \/ pushPut(OrchCaller)
  \/ mvpHandlerFailed
  \/ mvpHandlerRespond

InitOrchOnly ==
  InitOrch /\ InitGh /\ AppQuiet /\ WorkerQuiet /\ PagesQuiet /\ RouterQuiet
  /\ ParseQuiet
  /\ ProxyQuiet
  /\ ChatQuiet
SpecOrch == InitOrchOnly /\ [][NextOrch]_vars

NextWorker ==
  \/ sandboxDeployHandler
  \/ uploadEnsureService
  \/ uploadScript
  \/ uploadEnableWorkersDev
  \/ uploadVerify
  \/ waitForReadinessHealth
  \/ waitForReadinessRoot
  \/ uploadSnapshot
  \/ sandboxDeployRespond

\* The revision of uploadModuleWorker in src/utils/cloudflare.ts.
InitWorkerOnly ==
  /\ InitWorker
  /\ ~wEnv.scriptsFallback
  /\ GithubQuiet /\ AppQuiet /\ OrchQuiet /\ PagesQuiet /\ RouterQuiet
  /\ ParseQuiet
  /\ ProxyQuiet
  /\ ChatQuiet
SpecWorker == InitWorkerOnly /\ [][NextWorker]_vars

\* The revision of uploadModuleWorker in part_007, with the fallback to the
\* Scripts settings.
NextWorkerFallback ==
  \/ sandboxDeployHandler
  \/ uploadEnsureService
  \/ uploadScript
  \/ uploadEnableWorkersDev
  \/ uploadVerify
  \/ uploadEnableScripts
  \/ uploadVerifyScripts
  \/ waitForReadinessHealth
  \/ waitForReadinessRoot
  \/ uploadSnapshot
  \/ sandboxDeployRespond

InitWorkerFallback ==
  /\ InitWorker
  /\ wEnv.scriptsFallback
  /\ GithubQuiet /\ AppQuiet /\ OrchQuiet /\ PagesQuiet /\ RouterQuiet
  /\ ParseQuiet
  /\ ProxyQuiet
  /\ ChatQuiet
SpecWorkerFallback == InitWorkerFallback /\ [][NextWorkerFallback]_vars

\* An awaited probe settles (it resolves or rejects) and the timer of the
\* sleep fires: the steps of waitForReadiness are taken when enabled.
SpecWorkerFair ==
  /\ InitWorkerOnly
  /\ [][NextWorker]_vars
  /\ WF_vars(waitForReadinessHealth)
  /\ WF_vars(waitForReadinessRoot)

NextPages ==
  \/ sandboxDeployHandlerDual
  \/ deployWorker
  \/ deployPagesDirectCreate
  \/ deployPagesDirectUpload
  \/ sandboxDeployRespondDual
  \/ deletePagesProject

InitPagesOnly ==
  InitPages /\ GithubQuiet /\ AppQuiet /\ OrchQuiet /\ WorkerQuiet /\ RouterQuiet
  /\ ParseQuiet
  /\ ProxyQuiet
  /\ ChatQuiet
SpecPages == InitPagesOnly /\ [][NextPages]_vars

NextRouter ==
  \/ fetch
  \/ fetchHandler
  \/ serveAssets

InitRouterOnly ==
  /\ InitRouter
  /\ GithubQuiet /\ AppQuiet /\ OrchQuiet /\ WorkerQuiet /\ PagesQuiet
  /\ ParseQuiet
  /\ ProxyQuiet
  /\ ChatQuiet
SpecRouter == InitRouterOnly /\ [][NextRouter]_vars

NextParse == callSafeParseJson

InitParseOnly ==
  /\ InitParse
  /\ GithubQuiet /\ AppQuiet /\ OrchQuiet /\ WorkerQuiet /\ PagesQuiet
  /\ RouterQuiet
  /\ ProxyQuiet
  /\ ChatQuiet
SpecParse == InitParseOnly /\ [][NextParse]_vars

NextProxy == proxyFetch

InitProxyOnly ==
  /\ InitProxy
  /\ GithubQuiet /\ AppQuiet /\ OrchQuiet /\ WorkerQuiet /\ PagesQuiet
  /\ RouterQuiet /\ ParseQuiet
  /\ ChatQuiet
SpecProxy == InitProxyOnly /\ [][NextProxy]_vars

NextChat ==
  \E k \in Calls :
    \/ handleSend(k)
    \/ handleSendResponse(k)
    \/ tick(k)
    \/ deploy(k)
    \/ deployResponse(k)
    \/ handleSendClosure(k)
    \/ handleSendClosureResponse(k)
    \/ streamText(k)
    \/ handleBuildCommand(k)

InitChatOnly ==
  /\ InitChat
  /\ GithubQuiet /\ AppQuiet /\ OrchQuiet /\ WorkerQuiet /\ PagesQuiet
  /\ RouterQuiet /\ ParseQuiet /\ ProxyQuiet
SpecChat == InitChatOnly /\ [][NextChat]_vars

Next ==
  \/ NextGithub
  \/ NextApp
  \/ NextOrch
  \/ NextWorkerFallback
  \/ NextPages
  \/ NextRouter
  \/ NextParse
  \/ NextProxy
  \/ NextChat

Spec == Init /\ [][Next]_vars

(***************************************************************************)
(* Claims about /github-export.                                            *)
(***************************************************************************)
\* A successful PUT of path p by a request other than c.
OtherWrote(c, p) ==
  \E d \in Callers \ {c} : \E j \in 1..Len(gLog[d]) :
    /\ gLog[d][j].op = "PUT"
    /\ gLog[d][j].path = p
    /\ HttpOk(gLog[d][j].status)

\* C8: for every interleaving of two ensureRepo calls with the same
\* repository name (also when both see "not found" before either creates
\* it), both calls return and neither throws.
C8_EnsureRepoNeverThrows ==
  \A c \in Callers : gOut[c] # "threw_create"

\* C9: when the PUT of the k-th file fails the push throws at once: the
\* requests issued are exactly the GET/PUT pairs of files 1..k, the files
\* before the k-th were written and stay in the repository as pushed
\* (unless another request rewrote them), and a failed PUT is always
\* followed by the throw, never by a request for a later file.
C9_PartialPushNoRollback ==
  \A c \in Callers :
    LET files == gReq[c].files
        log == gLog[c]
        k == gIdx[c]
    IN /\ (\E j \in 1..Len(log) :
              log[j].op = "PUT" /\ ~HttpOk(log[j].status))
            => gOut[c] = "threw_push"
       /\ gOut[c] = "threw_push" =>
            /\ k \in 1..Len(files)
            /\ Len(log) = 2 * k
            /\ \A i \in 1..k :
                 /\ log[2 * i - 1].op = "GET"
                 /\ log[2 * i - 1].path = files[i]
                 /\ log[2 * i].op = "PUT"
                 /\ log[2 * i].path = files[i]
            /\ ~HttpOk(log[2 * k].status)
            /\ \A i \in 1..(k - 1) :
                 /\ HttpOk(log[2 * i].status)
                 /\ (~OtherWrote(c, files[i])
                       => ghFiles[files[i]] = Content(c, files[i]))

\* C9 witness: a push failed at its second file and the first file is in
\* the repository with the pushed content.
C9_Witness ==
  \E c \in Callers :
    /\ gOut[c] = "threw_push"
    /\ gIdx[c] = 2
    /\ ghFiles[gReq[c].files[1]] = Content(c, gReq[c].files[1])
    /\ ghFiles[gReq[c].files[2]] # Content(c, gReq[c].files[2])

C1_BundleWithinLimits ==
  (aResp.status = 200 /\ aResp.ok) =>
    /\ FileCount(aResp.files) <= MAX_FILES
    /\ TotalBytes(aResp.files) <= MAX_BYTES

\* C2: a /mvp request whose idea is missing, empty or blank gets an error
\* response, never a 2xx one, and causes no model call, no repository
\* request and no file push.
C2_BlankIdeaRejected ==
  (oPc # "idle" /\ IdeaOf(oReq.body) = <<>>) =>
    /\ oCalls = 0
    /\ gPc[OrchCaller] = "idle"
    /\ gLog[OrchCaller] = <<>>
    /\ (oResp # NoResp => ~HttpOk(oResp.status))

\* C20: every successful (ok:true) /mvp response has a non-empty
\* result.ir.name and an entry "index.html" in result.files, for every
\* model output that matches the requested schema.
C20_SuccessHasNameAndIndex ==
  (aResp # NoResp /\ aResp.status = 200 /\ aResp.ok /\ aResult.schemaOk) =>
    /\ aResp.irName # NoName
    /\ Has(aResp.files, "index.html")

\* C24: truncation by the guardrail is silent and keeps a prefix: every file
\* the loop accepted before the first rejected one is in the bundle sent,
\* with its content (none is lost or replaced), nothing is accepted after
\* the loop ended, and the response is a success, never an error.
C24_TruncationKeepsPrefix ==
  /\ aPc \in {"guard", "done"} =>
       /\ FileCount(aOut) = aN
       /\ TotalBytes(aOut) = aTotal
  /\ (aPc = "done" /\ aEntries > 0) =>
       /\ aResp.status = 200 /\ aResp.ok
       /\ aResp.files.plain = aOut.plain
       /\ aResp.files.plainBytes = aOut.plainBytes
       /\ \A n \in SpecialNames :
            Has(aOut, n) => aResp.files.special[n] = aOut.special[n]

(***************************************************************************)
(* Claims about /sandbox-deploy, single-file function strategy.            *)
(***************************************************************************)

\* C3: a /sandbox-deploy request whose confirm is absent or false is
\* answered 400 {ok:false, error:"confirm=false"} and issues no request to
\* the hosting platform.
C3_ConfirmRequired ==
  (wPc # "idle" /\ wReq.confirm # "true") =>
    /\ wLog = <<>>
    /\ (wResp # NoResp =>
          /\ wResp.status = 400
          /\ wResp.body = [ok |-> FALSE, error |-> "confirm=false"])

\* C4: when the readiness poll has exhausted its attempts, the response of
\* /sandbox-deploy has ok:false, carries the deployed URL and says that the
\* deployment is not serving yet.
C4_UrlKeptOnReadinessExhaustion ==
  (wReady = "exhausted" /\ wResp # NoResp) =>
    /\ wResp.body.ok = FALSE
    /\ "url" \in DOMAIN wResp.body
    /\ wResp.body.url = WorkersDevUrl(wName)
    /\ wResp.body.error = NotServing

\* Every step after the ensure step succeeded in the call in progress.
OtherStepsSucceeded ==
  /\ wReady # "exhausted"
  /\ \E i \in 1..Len(wLog) : wLog[i].op = "verify_on"
  /\ \A i \in 2..Len(wLog) : HttpOk(wLog[i].status)

\* C6: the ensure-service step of uploadModuleWorker is idempotent: a 409
\* (the answer for a service an earlier call created) is treated like a 2xx,
\* the upload follows and the call returns ok:true when the other steps
\* succeed; any other non-2xx ends the call with ok:false before any upload.
C6_EnsureServiceIdempotent ==
  /\ \A i \in 1..Len(wLog) :
       wLog[i].op = "script" =>
         /\ i = 2
         /\ wLog[1].op = "ensure"
         /\ (HttpOk(wLog[1].status) \/ wLog[1].status = 409)
  /\ (wLog # <<>> /\ ~HttpOk(wLog[1].status) /\ wLog[1].status # 409) =>
       /\ Len(wLog) = 1
       /\ wPc \in {"respond", "done"}
       /\ ~wDeployed.ok
       /\ wDeployed.status = Some(wLog[1].status)
  /\ (wLog # <<>> /\ wLog[1].status = 409) =>
       /\ wName \in cfServices
       /\ wPc # "respond" \/ Len(wLog) > 1
       /\ (wPc \in {"respond", "done"} /\ OtherStepsSucceeded) => wDeployed.ok
  /\ \A i \in 1..Len(wDone) :
       wDone[i].ok => (HttpOk(wDone[i].ensure) \/ wDone[i].ensure = 409)

\* C6 witness: two calls with the same service name, the first created the
\* service, the second was answered 409, and both returned ok:true.
C6_Witness ==
  /\ Len(wDone) = 2
  /\ wDone[1].name = wDone[2].name
  /\ wDone[1].ensure = 200 /\ wDone[1].ok
  /\ wDone[2].ensure = 409 /\ wDone[2].ok
  /\ wResp.status = 200 /\ wResp.body.ok

\* C22: whenever /sandbox-deploy answers ok:true, the response contains a
\* url and a name of the deployed resource: uploadModuleWorker never yields
\* ok:true with an undefined url that the handler passes on.
C22_OkResponseHasUrlAndName ==
  (wResp # NoResp /\ wResp.body.ok) =>
    /\ "url" \in DOMAIN wResp.body
    /\ "name" \in DOMAIN wResp.body

\* The place of a platform request in the order of uploadModuleWorker.
StepRank(op) ==
  CASE op = "ensure" -> 1
    [] op = "script" -> 2
    [] op = "settings" -> 3
    [] op \in {"verify_on", "verify_off"} -> 4
    [] op = "settings_scripts" -> 5
    [] op \in {"verify_scripts_on", "verify_scripts_off"} -> 6
    [] OTHER -> 7

\* The code judged the step a success (a conflict on the ensure step is one).
StepSucceeded(e) ==
  /\ HttpOk(e.status) \/ (e.op = "ensure" /\ e.status = 409)
  /\ e.op \notin {"verify_off", "verify_scripts_off"}

VerifiedEnabled ==
  \E i \in 1..Len(wLog) :
    wLog[i].op \in {"verify_on", "verify_scripts_on"} /\ HttpOk(wLog[i].status)

StepSucceededOrMadeUp(e) ==
  \/ StepSucceeded(e)
  \/ wEnv.scriptsFallback /\ StepRank(e.op) = 4

Polling == wPc \in {"health", "root"}

\* C16: waitForReadiness terminates for every behaviour of the probed
\* endpoints: at most 30 iterations, each with at most one probe of the
\* health path and one of the root path; it returns true right on a probe
\* judged ready and false only after 30 iterations found none.
C16_ReadinessPollTerminates ==
  /\ [](/\ wAttempt <= READINESS_ATTEMPTS
        /\ (Polling => wAttempt < READINESS_ATTEMPTS)
        /\ wProbes.health <= 1 /\ wProbes.root <= 1
        /\ (wReady = "ready" =>
              (wReadyBy # NoProbe /\ wAttempt < READINESS_ATTEMPTS
                 /\ ~Polling))
        /\ (wReadyBy # NoProbe => wReady = "ready")
        /\ (wReady = "exhausted" =>
              (wAttempt = READINESS_ATTEMPTS /\ ~Polling)))
  /\ (Polling ~> (wReady \in {"ready", "exhausted"}))

\* C16 witness: the poll gave up after 30 iterations and the call returned.
C16_Witness ==
  /\ wReady = "exhausted"
  /\ wAttempt = READINESS_ATTEMPTS
  /\ wPc = "done"

\* C17: waitForReadiness returns true only on a probe answered with a
\* status in 200..299 whose body is not the platform's placeholder page.
C17_ReadyOnlyOnNonPlaceholder2xx ==
  wReady = "ready" =>
    /\ wReadyBy.status >= 200 /\ wReadyBy.status <= 299
    /\ ~wReadyBy.placeholder

(***************************************************************************)
(* Claims about the router.                                                *)
(***************************************************************************)
ApiPathnames ==
  {<<"health">>, <<"mvp">>, <<"sandbox-deploy">>, <<"github-export">>}

Answered == rPc = "idle" /\ rResp # NoResponse /\ rResp.by = "router"

\* C18: every response the orchestrator returns for an API path, for every
\* method, on success and failure paths (wrong method, streaming mode), is
\* a JSON body with content-type application/json.  (The bodiless 204 of a
\* preflight is left out of the statement.)
C18_ApiResponsesAreJson ==
  (Answered /\ rReq.pathname \in ApiPathnames /\ rResp.status # 204) =>
    /\ rResp.contentType = "application/json"
    /\ rResp.body = "json"

\* C19: every response the router produces carries the CORS headers:
\* handler successes and errors, 404, 405 and preflight responses alike.
C19_EveryResponseHasCors ==
  Answered => rResp.cors

\* The route a request of the router of part_013 denotes, if any.
DenotedRoutes(pathname) ==
  {r \in RoutesWithAllow :
     \/ r.key # <<"">> /\ pathname \in PathForms(r.key[1])
     \/ r.key = <<"">> /\ pathname \in {<<"">>, <<"api">>, <<"api", "">>}}

\* C26: in the router of part_013, OPTIONS on any path gets 204 and invokes
\* no handler; a request to a known route with a method that has no handler
\* gets 405 with the route's Allow header and invokes no handler; the
\* methods in Allow are exactly those with a handler plus OPTIONS; and /x,
\* /x/, /api/x and /api/x/ dispatch to the handler of x.
C26_MethodAndPathDispatch ==
  (rRev = "part_013" /\ rPc = "idle" /\ rReq # NoRequest) =>
    /\ rReq.method = "OPTIONS" =>
         (rResp.status = 204 /\ rInvoked = None)
    /\ \A r \in DenotedRoutes(rReq.pathname) :
         /\ r.allow = Some(r.methods \cup {"OPTIONS"})
         /\ (rReq.method \in r.methods) => rInvoked = Some(r.handler)
         /\ (rReq.method \notin r.methods \cup {"OPTIONS"}) =>
              /\ rResp.status = 405
              /\ rResp.allow = r.allow
              /\ rInvoked = None
    /\ DenotedRoutes(rReq.pathname) = {} => rInvoked = None

\* C26 witness: PUT /api/mvp/ was answered 405 with Allow: POST, OPTIONS.
C26_Witness ==
  /\ rRev = "part_013"
  /\ rPc = "idle"
  /\ rReq # NoRequest
  /\ rReq.method = "PUT"
  /\ rReq.pathname = <<"api", "mvp", "">>
  /\ rResp.status = 405
  /\ rResp.allow = Some({"POST", "OPTIONS"})

(***************************************************************************)
(* Claims about safeParseJson.                                             *)
(***************************************************************************)
\* The blocks of a text that parse as an object, as <<start, end>>.
ParseableBlocks(s) ==
  {b \in (1..Len(s)) \X (1..Len(s)) :
     b[1] <= b[2] /\ JSONparse(SubSeq(s, b[1], b[2])) # None
       /\ s[b[1]] = "{" /\ s[b[2]] = "}"}

\* The first of them: the leftmost start, and for it the nearest end.
FirstParseableBlock(s) ==
  CHOOSE b \in ParseableBlocks(s) :
    \A c \in ParseableBlocks(s) :
      b[1] < c[1] \/ (b[1] = c[1] /\ b[2] <= c[2])

\* C25: for every text that is not itself valid JSON but contains a
\* balanced {...} block that parses, safeParseJson returns the parse of the
\* first such block; it returns null only when the text contains no
\* parseable object.
C25_FirstBalancedObjectExtracted ==
  (sPc = "returned" /\ JSONparse(trim(sRaw)) = None
     /\ ParseableBlocks(sRaw) # {}) =>
    LET b == FirstParseableBlock(sRaw)
    IN sParsed = JSONparse(SubSeq(sRaw, b[1], b[2]))


(***************************************************************************)
(* Claims about the generated Pages proxy.                                 *)
(***************************************************************************)
WithoutTrailingSlash(path) ==
  IF endsWith(path, <<"/">>) /\ Len(path) > 1
  THEN SubSeq(path, 1, Len(path) - 1) ELSE path

\* the pathname denotes the orchestrator route r: it is r, /api + r, or it
\* ends in r (a trailing slash apart)
Denotes(path, r) == endsWith(WithoutTrailingSlash(path), <<"/", r>>)

\* the upstream request goes to the orchestrator's route r, with at most a
\* suffix under r
SentToRoute(r) ==
  /\ pxUpstream # None
  /\ pxUpstream[1].host = OrchHost
  /\ \/ pxUpstream[1].pathname = <<"/", r>>
     \/ startsWith(pxUpstream[1].pathname, <<"/", r, "/">>)

\* C27: a request whose pathname denotes an orchestrator route is sent
\* upstream to that route, and a request whose pathname isApiLike rejects
\* is never sent upstream.
C27_ProxyForwardsToDenotedRoute ==
  pxPc = "answered" =>
    /\ \A r \in Range(KnownRoutes) :
         (Denotes(pxReq.pathname, r) /\ pxReq.method # "OPTIONS") =>
           /\ isApiLike(pxReq.pathname)
           /\ SentToRoute(r)
    /\ ~isApiLike(pxReq.pathname) => pxUpstream = None

(***************************************************************************)
(* Claims about the chat controller.                                       *)
(***************************************************************************)
RECURSIVE IsSubsequence(_, _)
IsSubsequence(s, t) ==
  IF s = <<>> THEN TRUE
  ELSE IF t = <<>> THEN FALSE
  ELSE IF Head(s) = Head(t) THEN IsSubsequence(Tail(s), Tail(t))
  ELSE IsSubsequence(s, Tail(t))

\* the messages of the thread without the lines a deploy appended to them
Cores(messages) ==
  [j \in 1..Len(messages) |->
     [messages[j] EXCEPT !.lines = <<>>, !.actions = FALSE]]

\* the last assistant message of call k: the error text, or the whole reply
FinalAssistant(k) ==
  IF cCall[k].len = 0 THEN ErrorMsg(k) ELSE Partial(k, cCall[k].len)

\* what the sends made so far must have left in the thread, in order: the
\* user message of every send and, for a send that came to its end, its
\* last assistant message
RECURSIVE Expected(_)
Expected(k) ==
  IF k > MaxCalls THEN <<>>
  ELSE (IF cCall[k].kind # "send" THEN <<>>
        ELSE IF cCall[k].pc = "done" THEN <<UserMsg(k), FinalAssistant(k)>>
        ELSE <<UserMsg(k)>>) \o Expected(k + 1)

\* C28: with simulated streaming no message of the thread is lost: the
\* thread always holds the user message of every send, in order, and once
\* every tick has fired it holds every reply in full as well; no tick of an
\* earlier response overwrites what was added after that response started.
C28_NoMessageLostUnderInterleaving ==
  cRev = "callback" => IsSubsequence(Expected(1), Cores(cMessages))

\* C29: after one handleSend on a thread with no other activity the thread
\* is what it was, then the user message, then exactly one assistant message
\* (the whole reply or the error text).
C29_SendAppendsUserAndOneAssistant ==
  (/\ cRev = "closure"
   /\ cCall[1].kind = "send" /\ cCall[1].pc = "done"
   /\ \A k \in Calls \ {1} : cCall[k].pc = "idle") =>
    Cores(cMessages) = cCall[1].snap \o <<UserMsg(1), FinalAssistant(1)>>

StoredBundle ==
  IF cRev = "callback" THEN hasBundle
  ELSE cFiles # None /\ cFiles[1] # {}
ShowsNoBundle ==
  \E j \in 1..Len(cMessages) : "no bundle" \in Range(cMessages[j].lines)

\* C30: no request goes to /sandbox-deploy for a thread without a stored
\* non-empty bundle, whether the deploy comes from the Build & Deploy button
\* or from the /build command; the thread then shows that no bundle is
\* available.
C30_NoDeployWithoutBundle ==
  /\ [](\A j \in 1..Len(cDeploys) :
         cDeploys[j].files # None /\ cDeploys[j].files[1] # {})
  /\ [][\A k \in Calls :
         (/\ cCall[k].pc = "idle"
          /\ cCall'[k].kind \in {"deploy", "build"}
          /\ ~StoredBundle) =>
           (cDeploys' = cDeploys /\ ShowsNoBundle')]_vars
(***************************************************************************)
(* Claims about /sandbox-deploy, static-bundle strategy.                   *)
(***************************************************************************)

\* C5: when the /sandbox-deploy request carries a non-empty files map, the
\* assets uploaded are the entries of that map.
C5_RequestBundleIsUploaded ==
  \A i \in 1..Len(pLog) :
    (pLog[i].op = "deploy" /\ pReq.files # None) =>
      pLog[i].assets = pReq.files[1]

\* C7: the create-project step of deployPagesDirect is idempotent: a create
\* request rejected because the project already exists does not abort the
\* deploy (the upload follows); every other create failure aborts it before
\* any upload.
C7_CreateProjectIdempotent ==
  \A i \in 1..Len(pLog) :
    pLog[i].op = "create" =>
      /\ pLog[i].cause = "exists" => ~(i = Len(pLog) /\ pPc = "caught")
      /\ pLog[i].cause = "other" =>
           \A j \in 1..Len(pLog) : pLog[j].op # "deploy"


\* What the request at hand created on the platform.
CreatedScript ==
  \E i \in 1..Len(pLog) : pLog[i].op = "worker" /\ HttpOk(pLog[i].status)
CreatedProject ==
  \E i \in 1..Len(pLog) : pLog[i].op = "create" /\ pLog[i].error = <<>>

\* C21: with ephemeral=true, once the request is answered every resource it
\* created on the platform (Pages project, Worker script) is deleted or has
\* its deletion scheduled, also on the workers-to-pages fallback and on the
\* paths where a later step of the deploy fails.
C21_EphemeralResourcesDeleted ==
  (pPc = "done" /\ pEphemeral) =>
    /\ (CreatedProject => (pName \in pScheduled \/ pName \notin cfProjects))
    /\ (CreatedScript => pName \notin cfScripts)
(***************************************************************************)
(* Claims about the error taxonomy of /mvp and /sandbox-deploy.            *)
(***************************************************************************)

\* C11: when the model's output parses but holds no files and no artifacts,
\* the response of /mvp is a 502 error, never ok:true.
C11_EmptyBundleIs502 ==
  [][(aPc = "guard" /\ aResult.files = "none" /\ aResp' # aResp) =>
       (aResp'.status = 502 /\ ~aResp'.ok)]_vars

\* C12: when no JSON object can be parsed or extracted from the model's
\* output, /mvp answers 502, the model was called once, and no repository
\* is created and no file pushed for the request.
C12_UnparseableOutputIs502 ==
  oParsed = "null" =>
    /\ oCalls = 1
    /\ gPc[OrchCaller] = "idle"
    /\ gLog[OrchCaller] = <<>>
    /\ (oResp # NoResp => (oResp.status = 502 /\ ~oResp.ok))

\* C13: a non-2xx answer of the hosting platform is surfaced by
\* /sandbox-deploy as HTTP 502, never as another status nor as ok:true.
C13_UpstreamErrorIs502 ==
  (wResp # NoResp /\ \E i \in 1..Len(wLog) : ~HttpOk(wLog[i].status)) =>
    /\ wResp.status = 502
    /\ ~wResp.body.ok

\* C14: when the model API key is missing, /mvp answers HTTP 500 with a
\* message naming the setting and has sent no request to the model.
C14_MissingConfigIs500 ==
  (oPc = "done" /\ ~oEnvKey) =>
    /\ oCalls = 0
    /\ oResp # NoResp
    /\ oResp.status = 500
    /\ oResp.error = "Missing env: OPENAI_API_KEY"

\* A platform request of the deploy that failed, the create conflict of an
\* existing project apart.
FailedRequest(e) ==
  IF e.op = "create" THEN e.error # <<>> /\ e.cause # "exists"
  ELSE ~HttpOk(e.status)

\* C15: within one deploy request, after the first failed create, upload or
\* settings request no further mutating platform request is issued, and the
\* caller gets the failure.
C15_NoRecoveryAfterFailure ==
  /\ \A i, j \in 1..Len(pLog) :
       (i < j /\ FailedRequest(pLog[i])) =>
         pLog[j].op \notin {"worker", "create", "deploy"}
  /\ (pResp # NoResp /\ \E i \in 1..Len(pLog) : FailedRequest(pLog[i])) =>
       ~pResp.body.ok

=============================================================================
